---- MODULE Spec2Model ----
(***************************************************************************)
(* Model of the spec upload pipeline of momorph/cli:                       *)
(*   internal/upload  (validator, status determiner, comparator,           *)
(*                     payload transformer, CSV row parser)                *)
(*   cmd/upload_specs.go (uploadSpecFiles, uploadSingleSpecFile,           *)
(*                     convertDesignItemToSpec)                            *)
(*                                                                         *)
(* Conventions                                                             *)
(*  - A Go string is a TLA+ string.  len() is only ever taken of the       *)
(*    free-text fields; their modelled values are "", one-character        *)
(*    strings and named over-long strings, whose lengths StrLen gives.     *)
(*  - A Go pointer to int or bool is <<>> for nil and <<v>> for &v.       *)
(*  - A []string of violations is a sequence of the messages.              *)
(***************************************************************************)
EXTENDS Integers, Sequences, FiniteSets, TLC

\* ------------------------------------------------------------------------
\* internal/upload: constants
\* ------------------------------------------------------------------------
MaxNameLength == 255
MaxNameTransLength == 255
MaxOtherTypeLength == 255
MaxFormatLength == 255
MaxDefaultValueLength == 255
MaxTableNameLength == 255
MaxColumnNameLength == 255
MaxNavigationNoteLength == 2000
MaxValidationNoteLength == 2000
MaxDatabaseNoteLength == 2000
MaxDescriptionLength == 10000

DesignItemStatusDeleted == "deleted"
DesignItemStatusNone == "none"
DesignItemStatusDraft == "draft"
DesignItemStatusCompleted == "completed"

AcceptedOptionTypes ==
  { "button", "checkbox", "radio_button", "dropdown", "file_or_image", "video",
    "date_picker", "pagination", "popup_dialog", "label", "text_form",
    "textarea", "others" }

AcceptedDataTypes ==
  { "array", "boolean", "byte", "character", "string", "date", "integer",
    "long", "short", "float", "double", "nothing" }

AcceptedButtonTypes == { "icon_text", "toggle", "text_link", "others" }

AcceptedActionTypes == { "on_click", "while_hovering", "key_gamepad", "after_delay" }

TypesRequiringDataType == { "textarea", "text_form", "others" }

TypesRequiringLength == { "textarea", "text_form", "file_or_image", "video", "others" }

TypesWithoutValidation == { "button", "label" }

\* ------------------------------------------------------------------------
\* Strings and pointers
\* ------------------------------------------------------------------------
\* Over-long strings, one character longer than the limit they are used against.
Long256 == "L256"
Long2001 == "L2001"
Long10001 == "L10001"

\* len(s) of the free-text values of the model
StrLen(s) ==
  CASE s = "" -> 0
    [] s \in {"x", "y"} -> 1
    [] s = Long256 -> MaxNameLength + 1
    [] s = Long2001 -> MaxNavigationNoteLength + 1
    [] s = Long10001 -> MaxDescriptionLength + 1

Nil == <<>>

Ptr(v) == <<v>>

Deref(p) == p[1]

\* append e to errors when cond holds
AppendIf(cond, e) == IF cond THEN <<e>> ELSE <<>>

\* ------------------------------------------------------------------------
\* internal/upload: Spec
\* ------------------------------------------------------------------------
\* The content fields of Spec, in the order of MapSpecForComparison
ContentFields ==
  { "Name", "NameTrans", "Type", "ButtonType", "OtherType", "Action",
    "LinkedFrameID", "NavigationNote", "DataType", "Required", "Format",
    "MinLength", "MaxLength", "DefaultValue", "ValidationNote", "TableName",
    "ColumnName", "DatabaseNote", "Description" }

PointerFields == { "Required", "MinLength", "MaxLength" }

\* the zero value of Spec
ZeroSpec ==
  [ NodeLinkID |-> "", SectionLinkID |-> "",
    Name |-> "", NameTrans |-> "", Type |-> "", ButtonType |-> "",
    OtherType |-> "", Action |-> "", LinkedFrameID |-> "",
    NavigationNote |-> "", DataType |-> "", Required |-> Nil, Format |-> "",
    MinLength |-> Nil, MaxLength |-> Nil, DefaultValue |-> "",
    ValidationNote |-> "", TableName |-> "", ColumnName |-> "",
    DatabaseNote |-> "", Description |-> "" ]

\* ------------------------------------------------------------------------
\* internal/upload: ValidateSpecContent
\* ------------------------------------------------------------------------
MsgTypeRequired == "type is required when status is completed"
MsgTypeOneOf == "type must be one of: AcceptedOptionTypes"
MsgName == "name must not exceed 255 characters"
MsgNameTrans == "nameTrans must not exceed 255 characters"
MsgButtonType == "buttonType must be one of: [icon_text toggle text_link others]"
MsgOtherType == "otherType must not exceed 255 characters"
MsgAction == "action must be one of: AcceptedActionTypes"
MsgNavigationNote == "navigationNote must not exceed 2000 characters"
MsgDataType == "dataType must be one of: AcceptedDataTypes"
MsgFormat == "format must not exceed 255 characters"
MsgMinLength == "minLength must be greater than or equal to 0"
MsgMaxLength == "maxLength must be greater than or equal to 0"
MsgMinMax == "minLength must be less than maxLength"
MsgDefaultValue == "defaultValue must not exceed 255 characters"
MsgValidationNote == "validationNote must not exceed 2000 characters"
MsgTableName == "tableName must not exceed 255 characters"
MsgColumnName == "columnName must not exceed 255 characters"
MsgDatabaseNote == "databaseNote must not exceed 2000 characters"
MsgDescription == "description must not exceed 10000 characters"

\* mutant of TypeErrors: under completed only the presence of a type is checked
TypeErrorsCompletedPresenceOnly(spec, isCompleted) ==
  IF isCompleted
  THEN AppendIf(spec.Type = "", MsgTypeRequired)
  ELSE AppendIf(spec.Type # "" /\ spec.Type \notin AcceptedOptionTypes, MsgTypeOneOf)

\* type validation
TypeErrors(spec, isCompleted) ==
  IF isCompleted \/ spec.Type # ""
  THEN IF spec.Type = ""
       THEN <<MsgTypeRequired>>
       ELSE AppendIf(spec.Type \notin AcceptedOptionTypes, MsgTypeOneOf)
  ELSE <<>>

\* mutant of ItemErrors: a completed button needs a buttonType
ItemErrorsButtonTypeRequired(spec, isCompleted) ==
  AppendIf((isCompleted \/ spec.Name # "")
             /\ StrLen(spec.Name) > MaxNameLength, MsgName)
  \o AppendIf((isCompleted \/ spec.NameTrans # "")
                /\ StrLen(spec.NameTrans) > MaxNameTransLength, MsgNameTrans)
  \o AppendIf(((spec.Type = "button" /\ isCompleted) \/ spec.ButtonType # "")
                /\ spec.ButtonType \notin AcceptedButtonTypes, MsgButtonType)
  \o AppendIf(((spec.Type = "others" /\ isCompleted) \/ spec.OtherType # "")
                /\ StrLen(spec.OtherType) > MaxOtherTypeLength, MsgOtherType)

\* item specs validation: name, nameTrans, buttonType, otherType
ItemErrors(spec, isCompleted) ==
  AppendIf((isCompleted \/ spec.Name # "")
             /\ StrLen(spec.Name) > MaxNameLength, MsgName)
  \o AppendIf((isCompleted \/ spec.NameTrans # "")
                /\ StrLen(spec.NameTrans) > MaxNameTransLength, MsgNameTrans)
  \o AppendIf(((spec.Type = "button" /\ isCompleted) \/ spec.ButtonType # "")
                /\ spec.ButtonType # ""
                /\ spec.ButtonType \notin AcceptedButtonTypes, MsgButtonType)
  \o AppendIf(((spec.Type = "others" /\ isCompleted) \/ spec.OtherType # "")
                /\ StrLen(spec.OtherType) > MaxOtherTypeLength, MsgOtherType)

\* navigation specs validation: action, navigationNote
NavigationErrors(spec, isCompleted) ==
  AppendIf(spec.Action # "" /\ spec.Action \notin AcceptedActionTypes, MsgAction)
  \o AppendIf(((spec.Action # "" /\ isCompleted) \/ spec.NavigationNote # "")
                /\ StrLen(spec.NavigationNote) > MaxNavigationNoteLength,
              MsgNavigationNote)

\* mutant of ValidationErrors: minLength equal to maxLength is accepted
ValidationErrorsMinMaxNonStrict(spec, isCompleted) ==
  LET requiresLength == spec.Type \in TypesRequiringLength /\ isCompleted
  IN  AppendIf(((spec.Type \in TypesRequiringDataType /\ isCompleted)
                  \/ spec.DataType # "")
                 /\ spec.DataType # ""
                 /\ spec.DataType \notin AcceptedDataTypes, MsgDataType)
      \o AppendIf(((spec.Type \notin TypesWithoutValidation /\ isCompleted)
                     \/ spec.Format # "")
                    /\ StrLen(spec.Format) > MaxFormatLength, MsgFormat)
      \o AppendIf((requiresLength \/ spec.MinLength # Nil)
                    /\ spec.MinLength # Nil /\ Deref(spec.MinLength) < 0, MsgMinLength)
      \o AppendIf((requiresLength \/ spec.MaxLength # Nil)
                    /\ spec.MaxLength # Nil /\ Deref(spec.MaxLength) < 0, MsgMaxLength)
      \o AppendIf(spec.MinLength # Nil /\ spec.MaxLength # Nil
                    /\ Deref(spec.MinLength) > Deref(spec.MaxLength), MsgMinMax)
      \o AppendIf((isCompleted \/ spec.DefaultValue # "")
                    /\ StrLen(spec.DefaultValue) > MaxDefaultValueLength, MsgDefaultValue)
      \o AppendIf((isCompleted \/ spec.ValidationNote # "")
                    /\ StrLen(spec.ValidationNote) > MaxValidationNoteLength,
                  MsgValidationNote)

\* validation specs validation: dataType, format, minLength, maxLength,
\* defaultValue, validationNote
ValidationErrors(spec, isCompleted) ==
  LET requiresLength == spec.Type \in TypesRequiringLength /\ isCompleted
  IN  AppendIf(((spec.Type \in TypesRequiringDataType /\ isCompleted)
                  \/ spec.DataType # "")
                 /\ spec.DataType # ""
                 /\ spec.DataType \notin AcceptedDataTypes, MsgDataType)
      \o AppendIf(((spec.Type \notin TypesWithoutValidation /\ isCompleted)
                     \/ spec.Format # "")
                    /\ StrLen(spec.Format) > MaxFormatLength, MsgFormat)
      \o AppendIf((requiresLength \/ spec.MinLength # Nil)
                    /\ spec.MinLength # Nil /\ Deref(spec.MinLength) < 0, MsgMinLength)
      \o AppendIf((requiresLength \/ spec.MaxLength # Nil)
                    /\ spec.MaxLength # Nil /\ Deref(spec.MaxLength) < 0, MsgMaxLength)
      \o AppendIf(spec.MinLength # Nil /\ spec.MaxLength # Nil
                    /\ Deref(spec.MinLength) >= Deref(spec.MaxLength), MsgMinMax)
      \o AppendIf((isCompleted \/ spec.DefaultValue # "")
                    /\ StrLen(spec.DefaultValue) > MaxDefaultValueLength, MsgDefaultValue)
      \o AppendIf((isCompleted \/ spec.ValidationNote # "")
                    /\ StrLen(spec.ValidationNote) > MaxValidationNoteLength,
                  MsgValidationNote)

\* database specs validation: tableName, columnName, databaseNote
DatabaseErrors(spec, isCompleted) ==
  LET requiresDatabase == isCompleted /\ spec.Type # "button"
  IN  AppendIf((requiresDatabase \/ spec.TableName # "")
                 /\ StrLen(spec.TableName) > MaxTableNameLength, MsgTableName)
      \o AppendIf((requiresDatabase \/ spec.ColumnName # "")
                    /\ StrLen(spec.ColumnName) > MaxColumnNameLength, MsgColumnName)
      \o AppendIf((requiresDatabase \/ spec.DatabaseNote # "")
                    /\ StrLen(spec.DatabaseNote) > MaxDatabaseNoteLength, MsgDatabaseNote)

\* description validation
DescriptionErrors(spec, isCompleted) ==
  AppendIf((isCompleted \/ spec.Description # "")
             /\ StrLen(spec.Description) > MaxDescriptionLength, MsgDescription)

\* all violations for the target status, collected in rule order
ValidateSpecContent(spec, status) ==
  LET isCompleted == status = DesignItemStatusCompleted
  IN  TypeErrors(spec, isCompleted)
      \o ItemErrors(spec, isCompleted)
      \o NavigationErrors(spec, isCompleted)
      \o ValidationErrors(spec, isCompleted)
      \o DatabaseErrors(spec, isCompleted)
      \o DescriptionErrors(spec, isCompleted)

\* ------------------------------------------------------------------------
\* internal/upload: IsSpecContentEmpty, DetermineSpecStatus
\* ------------------------------------------------------------------------
\* mutant of IsSpecContentEmpty: the type is not looked at
IsSpecContentEmptyIgnoringType(spec) ==
  \A f \in ContentFields \ {"Type"} :
     spec[f] = (IF f \in PointerFields THEN Nil ELSE "")

IsSpecContentEmpty(spec) ==
  /\ spec.Name = ""
  /\ spec.NameTrans = ""
  /\ spec.Type = ""
  /\ spec.ButtonType = ""
  /\ spec.OtherType = ""
  /\ spec.Action = ""
  /\ spec.LinkedFrameID = ""
  /\ spec.NavigationNote = ""
  /\ spec.DataType = ""
  /\ spec.Required = Nil
  /\ spec.Format = ""
  /\ spec.MinLength = Nil
  /\ spec.MaxLength = Nil
  /\ spec.DefaultValue = ""
  /\ spec.ValidationNote = ""
  /\ spec.TableName = ""
  /\ spec.ColumnName = ""
  /\ spec.DatabaseNote = ""
  /\ spec.Description = ""

\* mutant of DetermineSpecStatus: draft is tried first
DetermineSpecStatusDraftFirst(spec) ==
  IF IsSpecContentEmpty(spec)
  THEN [status |-> DesignItemStatusNone, errors |-> <<>>]
  ELSE IF ValidateSpecContent(spec, DesignItemStatusDraft) = <<>>
  THEN [status |-> DesignItemStatusDraft, errors |-> <<>>]
  ELSE [status |-> DesignItemStatusDraft,
        errors |-> ValidateSpecContent(spec, DesignItemStatusDraft)]

\* mutant of DetermineSpecStatus: the completed violations are returned when both fail
DetermineSpecStatusCompletedErrors(spec) ==
  IF IsSpecContentEmpty(spec)
  THEN [status |-> DesignItemStatusNone, errors |-> <<>>]
  ELSE IF ValidateSpecContent(spec, DesignItemStatusCompleted) = <<>>
  THEN [status |-> DesignItemStatusCompleted, errors |-> <<>>]
  ELSE IF ValidateSpecContent(spec, DesignItemStatusDraft) = <<>>
  THEN [status |-> DesignItemStatusDraft, errors |-> <<>>]
  ELSE [status |-> DesignItemStatusDraft,
        errors |-> ValidateSpecContent(spec, DesignItemStatusCompleted)]

\* returns (status, validationErrors); the existingStatus argument is unused
DetermineSpecStatus(spec) ==
  LET completedErrors == ValidateSpecContent(spec, DesignItemStatusCompleted)
      draftErrors == ValidateSpecContent(spec, DesignItemStatusDraft)
  IN  IF IsSpecContentEmpty(spec)
      THEN [status |-> DesignItemStatusNone, errors |-> <<>>]
      ELSE IF Len(completedErrors) = 0
      THEN [status |-> DesignItemStatusCompleted, errors |-> <<>>]
      ELSE IF Len(draftErrors) = 0
      THEN [status |-> DesignItemStatusDraft, errors |-> <<>>]
      ELSE [status |-> DesignItemStatusDraft, errors |-> draftErrors]

\* ------------------------------------------------------------------------
\* internal/upload: MapSpecForComparison, CompareSpecs
\* ------------------------------------------------------------------------
\* An interface{} holding nil is <<>>, one holding the value v is <<v>>.
\* A map[string]interface{} that is nil is <<>>, a non-nil map m is <<m>>.
NilMap == <<>>

\* mutant of MapSpecForComparison: an absent required, minLength or
\* maxLength is projected as its zero value
MapSpecForComparisonZeroDefaults(spec) ==
  << [ name |-> spec.Name,
       nameTrans |-> spec.NameTrans,
       type |-> spec.Type,
       buttonType |-> spec.ButtonType,
       otherType |-> spec.OtherType,
       action |-> spec.Action,
       linkedFrameId |-> spec.LinkedFrameID,
       navigationNote |-> spec.NavigationNote,
       dataType |-> spec.DataType,
       format |-> spec.Format,
       defaultValue |-> spec.DefaultValue,
       validationNote |-> spec.ValidationNote,
       tableName |-> spec.TableName,
       columnName |-> spec.ColumnName,
       databaseNote |-> spec.DatabaseNote,
       description |-> spec.Description,
       required |-> IF spec.Required # Nil THEN <<Deref(spec.Required)>> ELSE <<FALSE>>,
       minLength |-> IF spec.MinLength # Nil THEN <<Deref(spec.MinLength)>> ELSE <<0>>,
       maxLength |-> IF spec.MaxLength # Nil THEN <<Deref(spec.MaxLength)>> ELSE <<0>> ] >>

\* the projection of a non-nil *Spec
MapSpecForComparison(spec) ==
  << [ name |-> spec.Name,
       nameTrans |-> spec.NameTrans,
       type |-> spec.Type,
       buttonType |-> spec.ButtonType,
       otherType |-> spec.OtherType,
       action |-> spec.Action,
       linkedFrameId |-> spec.LinkedFrameID,
       navigationNote |-> spec.NavigationNote,
       dataType |-> spec.DataType,
       format |-> spec.Format,
       defaultValue |-> spec.DefaultValue,
       validationNote |-> spec.ValidationNote,
       tableName |-> spec.TableName,
       columnName |-> spec.ColumnName,
       databaseNote |-> spec.DatabaseNote,
       description |-> spec.Description,
       required |-> IF spec.Required # Nil THEN <<Deref(spec.Required)>> ELSE <<>>,
       minLength |-> IF spec.MinLength # Nil THEN <<Deref(spec.MinLength)>> ELSE <<>>,
       maxLength |-> IF spec.MaxLength # Nil THEN <<Deref(spec.MaxLength)>> ELSE <<>> ] >>

\* true if the projections are equal
CompareSpecs(current, previous) ==
  IF current = NilMap /\ previous = NilMap
  THEN TRUE
  ELSE IF current = NilMap \/ previous = NilMap
  THEN FALSE
  ELSE current[1] = previous[1]

\* MapSpecForComparison of a *Spec that may be nil
MapSpecOrNil(p) == IF p = Nil THEN NilMap ELSE MapSpecForComparison(Deref(p))

\* ------------------------------------------------------------------------
\* internal/upload: TransformSpecToPayload
\* ------------------------------------------------------------------------
conditionalString(condition, value) == IF condition THEN value ELSE ""

conditionalPtr(condition, value) == IF condition THEN value ELSE Nil

TransformSpecToPayload(spec, frameID, fileID, sectionLinkID, status) ==
  LET itemType == spec.Type
  IN  [ Type |-> spec.Type,
        Status |-> status,
        NodeLinkID |-> spec.NodeLinkID,
        SectionLinkID |-> sectionLinkID,
        FrameID |-> frameID,
        FileID |-> fileID,
        Specs |->
          [ Item |->
              [ name |-> spec.Name,
                nameTrans |-> spec.NameTrans,
                buttonType |-> conditionalString(itemType = "button", spec.ButtonType),
                otherType |-> conditionalString(itemType = "others", spec.OtherType) ],
            Navigation |->
              [ action |-> spec.Action,
                linkedFrameId |-> conditionalString(spec.Action # "", spec.LinkedFrameID),
                note |-> spec.NavigationNote ],
            Validation |->
              [ dataType |-> conditionalString(itemType \in TypesRequiringDataType,
                                               spec.DataType),
                required |-> conditionalPtr(itemType \notin TypesWithoutValidation,
                                            spec.Required),
                format |-> conditionalString(itemType \notin TypesWithoutValidation,
                                             spec.Format),
                minLength |-> conditionalPtr(itemType \in TypesRequiringLength,
                                             spec.MinLength),
                maxLength |-> conditionalPtr(itemType \in TypesRequiringLength,
                                             spec.MaxLength),
                defaultValue |-> spec.DefaultValue,
                note |-> spec.ValidationNote ],
            Database |->
              [ tableName |-> conditionalString(itemType # "button", spec.TableName),
                columnName |-> conditionalString(itemType # "button", spec.ColumnName),
                note |-> spec.DatabaseNote ],
            Description |-> spec.Description ] ]

\* ------------------------------------------------------------------------
\* encoding/json as used on SpecDetails (struct tags of internal/upload/types.go)
\* ------------------------------------------------------------------------
\* A JSON object is a function from the keys that are present to their values.
JSONPointerKeys == { "required", "minLength", "maxLength" }

\* mutant of OmitEmpty: required, minLength and maxLength are values, not
\* pointers, so false and 0 are left out too
OmitEmptyZeroValues(group) ==
  LET present == { k \in DOMAIN group :
                     IF k \in JSONPointerKeys
                     THEN group[k] # Nil /\ group[k] # Ptr(FALSE) /\ group[k] # Ptr(0)
                     ELSE group[k] # "" }
  IN  [ k \in present |-> group[k] ]

\* `omitempty`: a key is left out when its string is "" or its pointer is nil
OmitEmpty(group) ==
  LET present == { k \in DOMAIN group :
                     IF k \in JSONPointerKeys THEN group[k] # Nil ELSE group[k] # "" }
  IN  [ k \in present |-> group[k] ]

\* json.Marshal(payload.Specs): the four groups are non-nil pointers, so
\* their keys are always written; description is omitted when empty
MarshalSpecDetails(specs) ==
  [ k \in {"item", "navigation", "validation", "database"}
          \cup (IF specs.Description # "" THEN {"description"} ELSE {}) |->
      CASE k = "item" -> OmitEmpty(specs.Item)
        [] k = "navigation" -> OmitEmpty(specs.Navigation)
        [] k = "validation" -> OmitEmpty(specs.Validation)
        [] k = "database" -> OmitEmpty(specs.Database)
        [] k = "description" -> specs.Description ]

\* json.Unmarshal of one key into a zero-initialised field
JSONGet(obj, key, zero) == IF key \in DOMAIN obj THEN obj[key] ELSE zero

\* ------------------------------------------------------------------------
\* cmd/upload_specs.go: convertDesignItemToSpec
\* ------------------------------------------------------------------------
\* item.Specs is <<>> when the column holds no JSON and <<object>> otherwise
convertDesignItemToSpec(item) ==
  LET base == [ ZeroSpec EXCEPT !.NodeLinkID = item.NodeLinkID,
                                !.SectionLinkID = item.SectionLinkID,
                                !.Type = item.Type ]
      d == item.Specs[1]
      it == JSONGet(d, "item", <<>>)
      nav == JSONGet(d, "navigation", <<>>)
      val == JSONGet(d, "validation", <<>>)
      dbs == JSONGet(d, "database", <<>>)
  IN  IF Len(item.Specs) > 0
      THEN [ base EXCEPT
               !.Name = JSONGet(it, "name", ""),
               !.NameTrans = JSONGet(it, "nameTrans", ""),
               !.ButtonType = JSONGet(it, "buttonType", ""),
               !.OtherType = JSONGet(it, "otherType", ""),
               !.Action = JSONGet(nav, "action", ""),
               !.LinkedFrameID = JSONGet(nav, "linkedFrameId", ""),
               !.NavigationNote = JSONGet(nav, "note", ""),
               !.DataType = JSONGet(val, "dataType", ""),
               !.Required = JSONGet(val, "required", Nil),
               !.Format = JSONGet(val, "format", ""),
               !.MinLength = JSONGet(val, "minLength", Nil),
               !.MaxLength = JSONGet(val, "maxLength", Nil),
               !.DefaultValue = JSONGet(val, "defaultValue", ""),
               !.ValidationNote = JSONGet(val, "note", ""),
               !.TableName = JSONGet(dbs, "tableName", ""),
               !.ColumnName = JSONGet(dbs, "columnName", ""),
               !.DatabaseNote = JSONGet(dbs, "note", ""),
               !.Description = JSONGet(d, "description", "") ]
      ELSE base

\* ------------------------------------------------------------------------
\* Bounds of the model
\* ------------------------------------------------------------------------
\* data rows of the CSV file of the single-file runs
MaxRows == 2
\* invocations of `momorph upload specs` on the same files
MaxRuns == 2
\* files of one batch in the batch runs
MaxBatch == 2
\* content fields set in an input of the pure functions
MaxFieldsSet == 3

\* specs of at most this many set fields are given to the comparator
MaxFieldsCompared == 2

\* a data record given to parseSpecRow has at most this many cells
MaxRowCells == 3

\* the header of the CSV given to parseSpecRow has this many columns
HeaderWidth == 3

\* ------------------------------------------------------------------------
\* Inputs: CSV rows, frames, stored design items
\* ------------------------------------------------------------------------
NodeIds == { "n1", "n2" }

\* frame_link_id of the frame of a file, and a section of that frame
FrameLinkID == "fl"
SectionS1 == "s1"

\* the row contents of the model, as parseSpecRow returns them (NodeLinkID aside)
Templates ==
  [ empty  |-> ZeroSpec,
    button |-> [ZeroSpec EXCEPT !.Type = "button", !.ButtonType = "icon_text",
                               !.Name = "x"],
    described |-> [ZeroSpec EXCEPT !.Type = "button", !.ButtonType = "icon_text",
                                  !.Name = "x", !.Description = "y"],
    label  |-> [ZeroSpec EXCEPT !.Type = "label", !.Format = "x"],
    bogus  |-> [ZeroSpec EXCEPT !.Type = "bogus", !.Action = "on_click",
                               !.LinkedFrameID = "F3"],
    named  |-> [ZeroSpec EXCEPT !.Name = "x"],
    link   |-> [ZeroSpec EXCEPT !.Type = "button", !.Action = "on_click",
                               !.LinkedFrameID = "F1"],
    link2  |-> [ZeroSpec EXCEPT !.Type = "button", !.Action = "on_click",
                               !.LinkedFrameID = "F2"] ]

TemplateNames == DOMAIN Templates

\* a data row: the itemId cell and the other cells
Rows == [ node : NodeIds, tpl : TemplateNames ]

\* the Spec parseSpecRow builds of a row
SpecOf(row) == [ Templates[row.tpl] EXCEPT !.NodeLinkID = row.node ]

RECURSIVE SeqsUpTo(_, _)
\* the sequences over S of length at most n
SeqsUpTo(S, n) ==
  IF n = 0
  THEN { <<>> }
  ELSE LET shorter == SeqsUpTo(S, n - 1)
       IN  shorter \cup { Append(q, x) : q \in { t \in shorter : Len(t) = n - 1 }, x \in S }

Range(q) == { q[i] : i \in 1..Len(q) }

\* a CSV file: readable or not, and its data rows (the records after the header).
\* The node ids are interchangeable: the first row is taken to name "n1".
CSVFiles(rowLimit) ==
  { [readable |-> FALSE, rows |-> <<>>] }
  \cup { [readable |-> TRUE, rows |-> r] :
           r \in { q \in SeqsUpTo(Rows, rowLimit) : Len(q) > 0 => q[1].node = "n1" } }

FrameStates == { "missing", "design", "ready" }

\* the specs column an upload of the template writes
StoredSpecs(tpl) ==
  << MarshalSpecDetails(
       TransformSpecToPayload(Templates[tpl], 1, 1, "", "").Specs) >>

\* a row of design_items
DesignItem(id, node, section, type, status, specs) ==
  [ ID |-> id, NodeLinkID |-> node, SectionLinkID |-> section, Type |-> type,
    Status |-> status, Specs |-> specs ]

\* the design item of a node before the first run: none, or one of these
StoredVariants(id, node) ==
  { DesignItem(id, node, SectionS1, "button", st, StoredSpecs("button")) :
      st \in { DesignItemStatusCompleted, DesignItemStatusDraft,
               DesignItemStatusDeleted } }
  \cup { DesignItem(id, node, SectionS1, "bogus", DesignItemStatusDraft,
                    StoredSpecs("bogus")),
         DesignItem(id, node, "", "button", DesignItemStatusCompleted,
                    StoredSpecs("button")) }

\* the design_items tables of a frame before the first run, for a file with
\* the given rows: at most one item per node, items only of nodes of the file
InitialTables(nodes) ==
  LET one(n) == IF n \in nodes
                THEN { {} } \cup { {it} : it \in StoredVariants(IF n = "n1" THEN 1 ELSE 2, n) }
                ELSE { {} }
  IN  { a \cup b : a \in one("n1"), b \in one("n2") }

\* ------------------------------------------------------------------------
\* State
\* ------------------------------------------------------------------------
VARIABLES
  files,            \* per input file: [csv, frame]: the CSV file and the frame's state
  actor,            \* the actor e-mail of runUploadSpecs ("" when unknown)
  continueOnError,  \* the --continue-on-error flag
  db,               \* per input file: the design_items rows of its frame
  run,              \* number of the invocation
  ctx,              \* "live", "cancelled" (cancel() called), "exited" (os.Exit done)
  pc,               \* position in uploadSpecFiles / uploadSingleSpecFile
  idx,              \* index of the file of the loop of uploadSpecFiles
  results,          \* results of uploadSpecFiles so far
  prevResults,      \* statuses of the results of the previous invocation
  calls,            \* remote calls of the current file, in order
  existingMap,      \* node_link_id -> existing design item
  frameLinkIds,     \* the ids passed to ListFramesByFrameLinkIds
  frameMap,         \* the frame link ids ListFramesByFrameLinkIds returned
  validSpecs,       \* []ValidatedSpec
  invalidSpecs,     \* []ValidatedSpec
  skipped,          \* rows skipped as unchanged (logged only)
  items,            \* the batch passed to UpsertDesignItemSpecs
  savedItems,       \* what UpsertDesignItemSpecs returned
  revs,             \* the batch passed to InsertDesignItemRevs
  pspec,            \* input of the pure functions
  pout              \* result of the pure function applied last

orchVars ==
  << files, actor, continueOnError, db, run, ctx, pc, idx, results, prevResults,
     calls, existingMap, frameLinkIds, frameMap, validSpecs, invalidSpecs, skipped,
     items, savedItems, revs >>

pureVars == << pspec, pout >>

vars == << orchVars, pureVars >>

StatusSuccess == "success"
StatusFailed == "failed"
StatusSkipped == "skipped"

MsgParse == "Failed to parse CSV"
MsgFrameNotFound == "Frame not found"
MsgDesign == "Cannot upload specs to frame in 'design' status"
MsgNoNodeLinkIds == "No valid node link IDs provided"
MsgNoValid == "No valid specs to update (N invalid)"
MsgNoChanges == "No changes detected"
MsgUpsertFailed == "Failed to upsert specs"
MsgUploaded == "Uploaded N specs"
MsgDeleted == "The item has been deleted in Figma. Please review or remove the corresponding row."
MsgLinkedFrame == "Linked frame with ID not found"

PureIdle == [op |-> "none", status |-> "", errors |-> <<>>]

\* the working set of uploadSingleSpecFile before the file is read
WorkingSetReset ==
  /\ calls' = <<>>
  /\ existingMap' = <<>>
  /\ frameLinkIds' = {}
  /\ frameMap' = {}
  /\ validSpecs' = <<>>
  /\ invalidSpecs' = <<>>
  /\ skipped' = <<>>
  /\ items' = <<>>
  /\ savedItems' = <<>>
  /\ revs' = <<>>

\* ------------------------------------------------------------------------
\* cmd/upload_specs.go: uploadSpecFiles
\* ------------------------------------------------------------------------
\* an entry of the log of remote calls: the operation and whether it succeeded
Call(op, ok) == [ op |-> op, ok |-> ok ]

\* A remote call made with a cancelled context fails; otherwise it may succeed or fail.
CallOutcomes == IF ctx = "live" THEN { "ok", "fail" } ELSE { "fail" }

\* mutant of Finish: the loop stops at a failed file whatever the flag says
FinishStopOnFailed(status, message) ==
  /\ results' = Append(results, [Status |-> status, Message |-> message])
  /\ IF status = StatusFailed
     THEN pc' = "done" /\ idx' = idx
     ELSE /\ idx' = idx + 1
          /\ pc' = IF idx + 1 > Len(files) THEN "done" ELSE "boundary"

\* uploadSingleSpecFile returns: the result is appended, and the loop of
\* uploadSpecFiles goes on to the next file or returns
Finish(status, message) ==
  /\ results' = Append(results, [Status |-> status, Message |-> message])
  /\ IF status = StatusFailed /\ ~continueOnError
     THEN pc' = "done" /\ idx' = idx
     ELSE /\ idx' = idx + 1
          /\ pc' = IF idx + 1 > Len(files) THEN "done" ELSE "boundary"

\* ParseSpecsCSV: an error for an unreadable file and for fewer than two
\* records (header included)
ParseSpecsCSV(csv) ==
  IF ~csv.readable
  THEN [err |-> TRUE, specs |-> <<>>]
  ELSE IF 1 + Len(csv.rows) < 2
  THEN [err |-> TRUE, specs |-> <<>>]
  ELSE [err |-> FALSE, specs |-> csv.rows]

\* top of the loop of uploadSpecFiles, and uploadSingleSpecFile up to GetFrame
BeginFile ==
  /\ pc = "boundary"
  /\ ctx # "exited"
  /\ IF ctx = "cancelled"
     THEN /\ pc' = "done"
          /\ UNCHANGED << idx, results, calls, existingMap, frameLinkIds, frameMap, validSpecs, invalidSpecs,
                          skipped, items, savedItems, revs >>
     ELSE /\ WorkingSetReset
          /\ LET parsed == ParseSpecsCSV(files[idx].csv)
             IN  IF parsed.err
                 THEN Finish(StatusFailed, MsgParse)
                 ELSE IF Len(parsed.specs) = 0
                 THEN Finish(StatusSkipped, "CSV file contains no specs")
                 ELSE pc' = "GetFrame" /\ UNCHANGED << idx, results >>
  /\ UNCHANGED << files, actor, continueOnError, db, run, ctx, prevResults, pureVars >>

\* ------------------------------------------------------------------------
\* cmd/upload_specs.go: uploadSingleSpecFile
\* ------------------------------------------------------------------------
specs == files[idx].csv.rows

\* mutant of GetFrame: the frame status is not checked
GetFrameNoStatusCheck ==
  /\ pc = "GetFrame"
  /\ ctx # "exited"
  /\ \E outcome \in CallOutcomes :
       LET found == outcome = "ok" /\ files[idx].frame # "missing"
       IN  /\ calls' = Append(calls, Call("GetFrame", found))
           /\ IF ~found
              THEN Finish(StatusFailed, MsgFrameNotFound)
              ELSE pc' = "ListDesignItems" /\ UNCHANGED << idx, results >>
  /\ UNCHANGED << files, actor, continueOnError, db, run, ctx, prevResults,
                  existingMap, frameLinkIds, frameMap, validSpecs, invalidSpecs, skipped, items, savedItems,
                  revs, pureVars >>

\* client.GetFrame, the frame status check and the node link ids
GetFrame ==
  /\ pc = "GetFrame"
  /\ ctx # "exited"
  /\ \E outcome \in CallOutcomes :
       LET nodeLinkIds == SelectSeq(specs, LAMBDA r : r.node # "")
           found == outcome = "ok" /\ files[idx].frame # "missing"
       IN  /\ calls' = Append(calls, Call("GetFrame", found))
           /\ IF ~found
              THEN Finish(StatusFailed, MsgFrameNotFound)
              ELSE IF files[idx].frame = "design"
              THEN Finish(StatusFailed, MsgDesign)
              ELSE IF Len(nodeLinkIds) = 0
              THEN Finish(StatusFailed, MsgNoNodeLinkIds)
              ELSE pc' = "ListDesignItems" /\ UNCHANGED << idx, results >>
  /\ UNCHANGED << files, actor, continueOnError, db, run, ctx, prevResults,
                  existingMap, frameLinkIds, frameMap, validSpecs, invalidSpecs, skipped, items, savedItems,
                  revs, pureVars >>

\* the rows of the frame the query of ListDesignItemsByNodeLinkIds selects
ListedItems(table, nodeLinkIds) == { it \in table : it.NodeLinkID \in nodeLinkIds }

\* the maps the loop `existingMap[item.NodeLinkID] = item` can build of the
\* returned rows: the query has no order, the last row of a node stays
ExistingMaps(listed) ==
  LET nodes == { it.NodeLinkID : it \in listed }
  IN  { m \in [ nodes -> listed ] : \A n \in nodes : m[n].NodeLinkID = n }

\* mutant of ClassifyRow: the violations are looked at before the skip
ClassifyRowValidateFirst(row, em) ==
  LET spec == SpecOf(row)
      exists == spec.NodeLinkID \in DOMAIN em
      existingItem == em[spec.NodeLinkID]
      det == DetermineSpecStatus(spec)
      previousSpecMap == IF exists
                         THEN MapSpecForComparison(convertDesignItemToSpec(existingItem))
                         ELSE NilMap
      hasChanged == ~CompareSpecs(MapSpecForComparison(spec), previousSpecMap)
      vs(valid, errors) == [ Spec |-> row, Status |-> det.status, IsValid |-> valid,
                             Errors |-> errors, Changed |-> hasChanged, IsNew |-> ~exists ]
  IN  IF exists /\ existingItem.Status = DesignItemStatusDeleted
      THEN [ class |-> "invalid",
             vs |-> [ Spec |-> row, Status |-> "", IsValid |-> FALSE,
                      Errors |-> << MsgDeleted >>, Changed |-> FALSE, IsNew |-> FALSE ] ]
      ELSE IF Len(det.errors) > 0
      THEN [ class |-> "invalid", vs |-> vs(FALSE, det.errors) ]
      ELSE IF ~hasChanged /\ exists /\ existingItem.Status = det.status
      THEN [ class |-> "skipped", vs |-> vs(FALSE, det.errors) ]
      ELSE [ class |-> "valid", vs |-> vs(TRUE, <<>>) ]

\* mutant of ClassifyRow: an unchanged row is skipped whatever the status of
\* the existing record
ClassifyRowSkipUnchanged(row, em) ==
  LET spec == SpecOf(row)
      exists == spec.NodeLinkID \in DOMAIN em
      existingItem == em[spec.NodeLinkID]
      det == DetermineSpecStatus(spec)
      previousSpecMap == IF exists
                         THEN MapSpecForComparison(convertDesignItemToSpec(existingItem))
                         ELSE NilMap
      hasChanged == ~CompareSpecs(MapSpecForComparison(spec), previousSpecMap)
      vs(valid, errors) == [ Spec |-> row, Status |-> det.status, IsValid |-> valid,
                             Errors |-> errors, Changed |-> hasChanged, IsNew |-> ~exists ]
  IN  IF exists /\ existingItem.Status = DesignItemStatusDeleted
      THEN [ class |-> "invalid",
             vs |-> [ Spec |-> row, Status |-> "", IsValid |-> FALSE,
                      Errors |-> << MsgDeleted >>, Changed |-> FALSE, IsNew |-> FALSE ] ]
      ELSE IF ~hasChanged /\ exists
      THEN [ class |-> "skipped", vs |-> vs(FALSE, det.errors) ]
      ELSE IF Len(det.errors) > 0
      THEN [ class |-> "invalid", vs |-> vs(FALSE, det.errors) ]
      ELSE [ class |-> "valid", vs |-> vs(TRUE, <<>>) ]

\* one iteration of the classification loop
ClassifyRow(row, em) ==
  LET spec == SpecOf(row)
      exists == spec.NodeLinkID \in DOMAIN em
      existingItem == em[spec.NodeLinkID]
      det == DetermineSpecStatus(spec)
      currentSpecMap == MapSpecForComparison(spec)
      previousSpecMap == IF exists
                         THEN MapSpecForComparison(convertDesignItemToSpec(existingItem))
                         ELSE NilMap
      hasChanged == ~CompareSpecs(currentSpecMap, previousSpecMap)
  IN  IF exists /\ existingItem.Status = DesignItemStatusDeleted
      THEN [ class |-> "invalid",
             vs |-> [ Spec |-> row, Status |-> "", IsValid |-> FALSE,
                      Errors |-> << MsgDeleted >>, Changed |-> FALSE, IsNew |-> FALSE ] ]
      ELSE IF ~hasChanged /\ exists /\ existingItem.Status = det.status
      THEN [ class |-> "skipped",
             vs |-> [ Spec |-> row, Status |-> det.status, IsValid |-> FALSE,
                      Errors |-> det.errors, Changed |-> hasChanged, IsNew |-> ~exists ] ]
      ELSE IF Len(det.errors) > 0
      THEN [ class |-> "invalid",
             vs |-> [ Spec |-> row, Status |-> det.status, IsValid |-> FALSE,
                      Errors |-> det.errors, Changed |-> hasChanged, IsNew |-> ~exists ] ]
      ELSE [ class |-> "valid",
             vs |-> [ Spec |-> row, Status |-> det.status, IsValid |-> TRUE,
                      Errors |-> <<>>, Changed |-> hasChanged, IsNew |-> ~exists ] ]

\* the ValidatedSpecs of a class, in file order
Classified(rows, em, class) ==
  LET all == [ i \in 1..Len(rows) |-> ClassifyRow(rows[i], em) ]
      sel == SelectSeq(all, LAMBDA c : c.class = class)
  IN  [ i \in 1..Len(sel) |-> sel[i].vs ]

\* the distinct linked frame ids of the valid specs
LinkedFrameIDs(valid) ==
  { SpecOf(valid[i].Spec).LinkedFrameID : i \in 1..Len(valid) } \ { "" }

\* mutant of SectionLinkIDFor: the section of the existing record is not used
SectionLinkIDForFrameOnly(spec, em) ==
  IF spec.SectionLinkID = "" THEN FrameLinkID ELSE spec.SectionLinkID

\* the section_link_id of the payload of a spec
SectionLinkIDFor(spec, em) ==
  LET own == spec.SectionLinkID
      fromExisting ==
        IF own = "" /\ spec.NodeLinkID \in DOMAIN em
                    /\ em[spec.NodeLinkID].SectionLinkID # ""
        THEN em[spec.NodeLinkID].SectionLinkID
        ELSE own
  IN  IF fromExisting = "" THEN FrameLinkID ELSE fromExisting

\* the items of the upsert: one per valid spec
PrepareItems(valid, em) ==
  [ i \in 1..Len(valid) |->
      LET spec == SpecOf(valid[i].Spec)
          payload == TransformSpecToPayload(spec, 1, 1, SectionLinkIDFor(spec, em),
                                            valid[i].Status)
      IN  [ type |-> payload.Type,
            node_link_id |-> payload.NodeLinkID,
            section_link_id |-> payload.SectionLinkID,
            status |-> payload.Status,
            specs |-> << MarshalSpecDetails(payload.Specs) >> ] ]

\* mutant of AfterValidation: an empty valid set is always "no changes"
AfterValidationNoChangesOnly(valid, invalid, em) ==
  IF Len(valid) = 0
  THEN /\ Finish(StatusSkipped, MsgNoChanges)
       /\ items' = <<>>
  ELSE /\ pc' = "Upsert"
       /\ items' = PrepareItems(valid, em)
       /\ UNCHANGED << idx, results >>

\* after the linked frame validation: nothing to write, or on to the upsert
AfterValidation(valid, invalid, em) ==
  IF Len(valid) = 0
  THEN /\ IF Len(invalid) > 0
          THEN Finish(StatusFailed, MsgNoValid)
          ELSE Finish(StatusSkipped, MsgNoChanges)
       /\ items' = <<>>
  ELSE /\ pc' = "Upsert"
       /\ items' = PrepareItems(valid, em)
       /\ UNCHANGED << idx, results >>

\* client.ListDesignItemsByNodeLinkIds and the classification of the rows
ListDesignItems ==
  /\ pc = "ListDesignItems"
  /\ ctx # "exited"
  /\ \E outcome \in CallOutcomes :
       \E em \in IF outcome = "ok"
                 THEN ExistingMaps(ListedItems(db[idx], { r.node : r \in Range(specs) }))
                 ELSE { <<>> } :
         /\ calls' = Append(calls, Call("ListDesignItemsByNodeLinkIds", outcome = "ok"))
         /\ existingMap' = em
         /\ validSpecs' = Classified(specs, em, "valid")
         /\ invalidSpecs' = Classified(specs, em, "invalid")
         /\ skipped' = Classified(specs, em, "skipped")
         /\ IF LinkedFrameIDs(validSpecs') # {}
            THEN pc' = "ListFrames" /\ UNCHANGED << idx, results, items >>
            ELSE AfterValidation(validSpecs', invalidSpecs', em)
  /\ UNCHANGED << files, actor, continueOnError, db, run, ctx, prevResults,
                  frameLinkIds, frameMap, savedItems, revs, pureVars >>

\* mutant of ListFrames: the specs whose linked frame is not found are
\* reported as invalid but stay in the valid set
ListFramesKeepsMissing ==
  /\ pc = "ListFrames"
  /\ ctx # "exited"
  /\ \E outcome \in CallOutcomes :
       \E found \in IF outcome = "ok"
                    THEN SUBSET LinkedFrameIDs(validSpecs)
                    ELSE { {} } :
         LET bad(vs) == /\ SpecOf(vs.Spec).LinkedFrameID # ""
                        /\ SpecOf(vs.Spec).LinkedFrameID \notin found
         IN  /\ calls' = Append(calls, Call("ListFramesByFrameLinkIds", outcome = "ok"))
             /\ frameLinkIds' = LinkedFrameIDs(validSpecs)
             /\ frameMap' = found
             /\ invalidSpecs' =
                  IF outcome = "ok"
                  THEN invalidSpecs \o SelectSeq(validSpecs, bad)
                  ELSE invalidSpecs
             /\ UNCHANGED validSpecs
             /\ AfterValidation(validSpecs', invalidSpecs', existingMap)
  /\ UNCHANGED << files, actor, continueOnError, db, run, ctx, prevResults,
                  existingMap, skipped, savedItems, revs, pureVars >>

\* client.ListFramesByFrameLinkIds and the move of the specs whose linked
\* frame is not found
ListFrames ==
  /\ pc = "ListFrames"
  /\ ctx # "exited"
  /\ \E outcome \in CallOutcomes :
       \E found \in IF outcome = "ok"
                    THEN SUBSET LinkedFrameIDs(validSpecs)
                    ELSE { {} } :
         LET bad(vs) == /\ SpecOf(vs.Spec).LinkedFrameID # ""
                        /\ vs.IsValid
                        /\ SpecOf(vs.Spec).LinkedFrameID \notin found
             marked == [ i \in 1..Len(validSpecs) |->
                           IF bad(validSpecs[i])
                           THEN [ validSpecs[i] EXCEPT
                                    !.IsValid = FALSE,
                                    !.Errors = Append(@, MsgLinkedFrame) ]
                           ELSE validSpecs[i] ]
         IN  /\ calls' = Append(calls, Call("ListFramesByFrameLinkIds", outcome = "ok"))
             /\ frameLinkIds' = LinkedFrameIDs(validSpecs)
             /\ frameMap' = found
             /\ IF outcome = "ok"
                THEN /\ invalidSpecs' =
                          invalidSpecs \o SelectSeq(marked, LAMBDA vs : ~vs.IsValid)
                     /\ validSpecs' = SelectSeq(marked, LAMBDA vs : vs.IsValid)
                ELSE UNCHANGED << validSpecs, invalidSpecs >>
             /\ AfterValidation(validSpecs', invalidSpecs', existingMap)
  /\ UNCHANGED << files, actor, continueOnError, db, run, ctx, prevResults,
                  existingMap, skipped, savedItems, revs, pureVars >>

\* ------------------------------------------------------------------------
\* The remote store: insert_design_items with on_conflict
\* (constraint design_items_section_link_id_node_link_id_file_id_key,
\*  update_columns specs, type, status, name, no, is_reviewed)
\* ------------------------------------------------------------------------
\* two items of one statement hit the same row of the constraint: the
\* statement is rejected ("cannot affect row a second time")
HasDuplicateKeys(its) ==
  \E i, j \in 1..Len(its) :
     /\ i < j
     /\ its[i].node_link_id = its[j].node_link_id
     /\ its[i].section_link_id = its[j].section_link_id

MaxID(table) ==
  IF table = {} THEN 0 ELSE CHOOSE m \in { it.ID : it \in table } :
                               \A it \in table : it.ID <= m

Conflicting(table, item) ==
  { it \in table : /\ it.NodeLinkID = item.node_link_id
                   /\ it.SectionLinkID = item.section_link_id }

RECURSIVE UpsertRows(_, _, _)
\* the table after the items i.. of the statement, and the rows it returns
\* (returning id, no, name, node_link_id, status, specs: no type, no section)
UpsertRows(table, its, i) ==
  IF i > Len(its)
  THEN [ table |-> table, returning |-> <<>> ]
  ELSE LET item == its[i]
           old == Conflicting(table, item)
           row == IF old # {}
                  THEN LET o == CHOOSE o \in old : TRUE
                       IN  [ o EXCEPT !.Specs = item.specs, !.Type = item.type,
                                      !.Status = item.status ]
                  ELSE DesignItem(MaxID(table) + 1, item.node_link_id,
                                  item.section_link_id, item.type, item.status,
                                  item.specs)
           rest == UpsertRows((table \ old) \cup { row }, its, i + 1)
       IN  [ table |-> rest.table,
             returning |-> << [ ID |-> row.ID, NodeLinkID |-> row.NodeLinkID,
                                SectionLinkID |-> "", Type |-> "",
                                Status |-> row.Status, Specs |-> row.Specs ] >>
                           \o rest.returning ]

\* ------------------------------------------------------------------------
\* cmd/upload_specs.go: uploadSingleSpecFile, upsert and revisions
\* ------------------------------------------------------------------------
\* client.UpsertDesignItemSpecs; a failed call may still have been applied
Upsert ==
  /\ pc = "Upsert"
  /\ ctx # "exited"
  /\ \E outcome \in IF HasDuplicateKeys(items) THEN { "fail" } ELSE CallOutcomes :
       \E applied \in IF outcome = "ok"
                      THEN { TRUE }
                      ELSE IF ctx = "live" /\ ~HasDuplicateKeys(items)
                      THEN BOOLEAN
                      ELSE { FALSE } :
         LET up == UpsertRows(db[idx], items, 1)
         IN  /\ calls' = Append(calls, Call("UpsertDesignItemSpecs", outcome = "ok"))
             /\ db' = IF applied THEN [ db EXCEPT ![idx] = up.table ] ELSE db
             /\ IF outcome = "fail"
                THEN /\ Finish(StatusFailed, MsgUpsertFailed)
                     /\ savedItems' = <<>>
                ELSE /\ savedItems' = up.returning
                     /\ IF actor # ""
                        THEN pc' = "GetUser" /\ UNCHANGED << idx, results >>
                        ELSE Finish(StatusSuccess, MsgUploaded)
  /\ UNCHANGED << files, actor, continueOnError, run, ctx, prevResults, existingMap, frameLinkIds, frameMap,
                  validSpecs, invalidSpecs, skipped, items, revs, pureVars >>

\* the first validated spec of the node, as the inner loop finds it
FirstValidFor(valid, node) ==
  LET hits == SelectSeq(valid, LAMBDA vs : SpecOf(vs.Spec).NodeLinkID = node)
  IN  IF Len(hits) = 0 THEN <<>> ELSE << hits[1] >>

\* mutant of ShouldCreateRevision: a change of status alone is a change
ShouldCreateRevisionOnStatusChange(item, em, valid) ==
  IF item.NodeLinkID \notin DOMAIN em
  THEN TRUE
  ELSE LET currentSpecMap ==
             MapSpecForComparison(convertDesignItemToSpec(em[item.NodeLinkID]))
           found == FirstValidFor(valid, item.NodeLinkID)
       IN  /\ Len(found) > 0
           /\ \/ ~CompareSpecs(MapSpecForComparison(SpecOf(found[1].Spec)), currentSpecMap)
              \/ found[1].Status # em[item.NodeLinkID].Status

\* mutant of ShouldCreateRevision: only new items get a revision
ShouldCreateRevisionNewOnly(item, em, valid) ==
  item.NodeLinkID \notin DOMAIN em

\* shouldCreateRevision of a saved item
ShouldCreateRevision(item, em, valid) ==
  IF item.NodeLinkID \notin DOMAIN em
  THEN TRUE
  ELSE LET currentSpecMap ==
             MapSpecForComparison(convertDesignItemToSpec(em[item.NodeLinkID]))
           found == FirstValidFor(valid, item.NodeLinkID)
       IN  /\ Len(found) > 0
           /\ ~CompareSpecs(MapSpecForComparison(SpecOf(found[1].Spec)), currentSpecMap)

\* the revision entries of the saved items
BuildRevs(saved, em, valid) ==
  LET due == SelectSeq(saved, LAMBDA item : ShouldCreateRevision(item, em, valid))
  IN  [ i \in 1..Len(due) |->
          [ design_item_id |-> due[i].ID, status |-> due[i].Status,
            specs |-> due[i].Specs, type |-> due[i].Type, change_type |-> "user",
            user_id |-> 1 ] ]

\* mutant of GetUser: the revisions are prepared and sent although the user
\* was not found
GetUserIgnoresFailure ==
  /\ pc = "GetUser"
  /\ ctx # "exited"
  /\ \E outcome \in CallOutcomes :
       /\ calls' = Append(calls, Call("GetMorpheusUserByEmail", outcome = "ok"))
       /\ revs' = BuildRevs(savedItems, existingMap, validSpecs)
       /\ IF Len(revs') > 0
          THEN pc' = "InsertRevs" /\ UNCHANGED << idx, results >>
          ELSE Finish(StatusSuccess, MsgUploaded)
  /\ UNCHANGED << files, actor, continueOnError, db, run, ctx, prevResults,
                  existingMap, frameLinkIds, frameMap, validSpecs, invalidSpecs, skipped, items, savedItems,
                  pureVars >>

\* client.GetMorpheusUserByEmail (no such user is an error too) and the
\* revision entries
GetUser ==
  /\ pc = "GetUser"
  /\ ctx # "exited"
  /\ \E outcome \in CallOutcomes :
       /\ calls' = Append(calls, Call("GetMorpheusUserByEmail", outcome = "ok"))
       /\ IF outcome = "ok"
          THEN /\ revs' = BuildRevs(savedItems, existingMap, validSpecs)
               /\ IF Len(revs') > 0
                  THEN pc' = "InsertRevs" /\ UNCHANGED << idx, results >>
                  ELSE Finish(StatusSuccess, MsgUploaded)
          ELSE /\ revs' = <<>>
               /\ Finish(StatusSuccess, MsgUploaded)
  /\ UNCHANGED << files, actor, continueOnError, db, run, ctx, prevResults,
                  existingMap, frameLinkIds, frameMap, validSpecs, invalidSpecs, skipped, items, savedItems,
                  pureVars >>

\* mutant of InsertRevs: a failed revision insert fails the file
InsertRevsFatal ==
  /\ pc = "InsertRevs"
  /\ ctx # "exited"
  /\ \E outcome \in CallOutcomes :
       /\ calls' = Append(calls, Call("InsertDesignItemRevs", outcome = "ok"))
       /\ IF outcome = "ok"
          THEN Finish(StatusSuccess, MsgUploaded)
          ELSE Finish(StatusFailed, "Failed to insert revisions")
  /\ UNCHANGED << files, actor, continueOnError, db, run, ctx, prevResults,
                  existingMap, frameLinkIds, frameMap, validSpecs, invalidSpecs, skipped, items, savedItems,
                  revs, pureVars >>

\* mutant of InsertRevs: a failed revision insert is tried again
InsertRevsRetry ==
  /\ pc = "InsertRevs"
  /\ ctx # "exited"
  /\ \E outcome \in CallOutcomes :
       /\ calls' = Append(calls, Call("InsertDesignItemRevs", outcome = "ok"))
       /\ IF outcome = "ok"
          THEN Finish(StatusSuccess, MsgUploaded)
          ELSE UNCHANGED << pc, idx, results >>
  /\ UNCHANGED << files, actor, continueOnError, db, run, ctx, prevResults,
                  existingMap, frameLinkIds, frameMap, validSpecs, invalidSpecs,
                  skipped, items, savedItems, revs, pureVars >>

\* client.InsertDesignItemRevs: a failure is logged only
InsertRevs ==
  /\ pc = "InsertRevs"
  /\ ctx # "exited"
  /\ \E outcome \in CallOutcomes :
       calls' = Append(calls, Call("InsertDesignItemRevs", outcome = "ok"))
  /\ Finish(StatusSuccess, MsgUploaded)
  /\ UNCHANGED << files, actor, continueOnError, db, run, ctx, prevResults,
                  existingMap, frameLinkIds, frameMap, validSpecs, invalidSpecs, skipped, items, savedItems,
                  revs, pureVars >>

\* ------------------------------------------------------------------------
\* cmd/upload_specs.go: runUploadSpecs
\* ------------------------------------------------------------------------
\* SIGINT/SIGTERM arrives: the handler goroutine calls cancel()
Signal ==
  /\ ctx = "live"
  /\ pc # "done"
  /\ ctx' = "cancelled"
  /\ UNCHANGED << files, actor, continueOnError, db, run, pc, idx, results,
                  prevResults, calls, existingMap, frameLinkIds, frameMap, validSpecs, invalidSpecs, skipped,
                  items, savedItems, revs, pureVars >>

\* the handler goroutine goes on to os.Exit(0)
Exit ==
  /\ ctx = "cancelled"
  /\ ctx' = "exited"
  /\ UNCHANGED << files, actor, continueOnError, db, run, pc, idx, results,
                  prevResults, calls, existingMap, frameLinkIds, frameMap, validSpecs, invalidSpecs, skipped,
                  items, savedItems, revs, pureVars >>

\* the command is run again on the same files
Rerun ==
  /\ pc = "done" \/ ctx = "exited"
  /\ run < MaxRuns
  /\ run' = run + 1
  /\ ctx' = "live"
  /\ pc' = "boundary"
  /\ idx' = 1
  /\ prevResults' = [ i \in 1..Len(results) |-> results[i].Status ]
  /\ results' = <<>>
  /\ WorkingSetReset
  /\ UNCHANGED << files, actor, continueOnError, db, pureVars >>

\* ------------------------------------------------------------------------
\* Specification of the upload runs
\* ------------------------------------------------------------------------
OrchStart ==
  /\ run = 1
  /\ ctx = "live"
  /\ pc = "boundary"
  /\ idx = 1
  /\ results = <<>>
  /\ prevResults = <<>>
  /\ calls = <<>>
  /\ existingMap = <<>>
  /\ frameLinkIds = {}
  /\ frameMap = {}
  /\ validSpecs = <<>>
  /\ invalidSpecs = <<>>
  /\ skipped = <<>>
  /\ items = <<>>
  /\ savedItems = <<>>
  /\ revs = <<>>

\* one file, any content, any frame state, any stored items of its nodes
Init ==
  /\ \E csv \in CSVFiles(MaxRows), frame \in FrameStates :
       /\ files = << [csv |-> csv, frame |-> frame] >>
       /\ \E table \in InitialTables(IF csv.readable
                                     THEN { r.node : r \in Range(csv.rows) }
                                     ELSE NodeIds) : db = << table >>
  /\ actor \in { "", "user@example.com" }
  /\ continueOnError = FALSE
  /\ OrchStart
  /\ pspec = ZeroSpec
  /\ pout = PureIdle

Next ==
  \/ BeginFile
  \/ GetFrame
  \/ ListDesignItems
  \/ ListFrames
  \/ Upsert
  \/ GetUser
  \/ InsertRevs
  \/ Rerun

Spec == Init /\ [][Next]_vars

\* ------------------------------------------------------------------------
\* Specification of the batch runs: several small files, the flag, the signal
\* ------------------------------------------------------------------------
BatchFiles ==
  [ csv : { [readable |-> FALSE, rows |-> <<>>],
            [readable |-> TRUE, rows |-> <<>>],
            [readable |-> TRUE, rows |-> << [node |-> "n1", tpl |-> "button"] >>],
            [readable |-> TRUE, rows |-> << [node |-> "n1", tpl |-> "bogus"] >>],
            [readable |-> TRUE, rows |-> << [node |-> "n1", tpl |-> "link"] >>] },
    frame : { "missing", "ready" } ]

InitBatch ==
  /\ files \in SeqsUpTo(BatchFiles, MaxBatch) \ { <<>> }
  /\ db = [ i \in 1..Len(files) |-> {} ]
  /\ actor = "user@example.com"
  /\ continueOnError \in BOOLEAN
  /\ OrchStart
  /\ pspec = ZeroSpec
  /\ pout = PureIdle

NextBatch ==
  \/ Next
  \/ Signal
  \/ Exit

SpecBatch == InitBatch /\ [][NextBatch]_vars

\* ------------------------------------------------------------------------
\* Specification of the pure functions: an input spec is built field by
\* field, then a function is applied to it
\* ------------------------------------------------------------------------
ModelledTypes ==
  { "button", "label", "others", "text_form", "file_or_image", "checkbox", "bogus" }

\* the values a content field is set to
FieldValues(f) ==
  CASE f = "Type" -> ModelledTypes
    [] f = "ButtonType" -> { "icon_text", "bogus" }
    [] f = "Action" -> { "on_click", "bogus" }
    [] f = "DataType" -> { "string", "bogus" }
    [] f = "LinkedFrameID" -> { "F1" }
    [] f = "Required" -> { Ptr(TRUE), Ptr(FALSE) }
    [] f \in { "MinLength", "MaxLength" } -> { Ptr(-1), Ptr(0), Ptr(3), Ptr(5) }
    [] f \in { "NavigationNote", "ValidationNote", "DatabaseNote" } -> { "x", Long2001 }
    [] f = "Description" -> { "x", "y", Long10001 }
    [] OTHER -> { "x", Long256 }

FieldsSet(spec) == { f \in ContentFields : spec[f] # ZeroSpec[f] }

SetField ==
  /\ pout = PureIdle
  /\ Cardinality(FieldsSet(pspec)) < MaxFieldsSet
  /\ \E f \in ContentFields \ FieldsSet(pspec) :
       \E v \in FieldValues(f) : pspec' = [ pspec EXCEPT ![f] = v ]
  /\ UNCHANGED << pout, orchVars >>

ApplyValidate ==
  /\ pout = PureIdle
  /\ \E status \in { DesignItemStatusDraft, DesignItemStatusCompleted } :
       pout' = [ op |-> "ValidateSpecContent", status |-> status,
                 errors |-> ValidateSpecContent(pspec, status) ]
  /\ UNCHANGED << pspec, orchVars >>

ApplyDetermine ==
  /\ pout = PureIdle
  /\ pout' = [ op |-> "DetermineSpecStatus" ] @@ DetermineSpecStatus(pspec)
  /\ UNCHANGED << pspec, orchVars >>

\* ------------------------------------------------------------------------
\* internal/upload: parseSpecRow
\* ------------------------------------------------------------------------
\* the texts of the cells of the model
CellTexts == { "", " 5 ", "-1", "abc", "Yes", "0", "maybe", "button" }

\* strings.TrimSpace on the cell texts
TrimSpace(s) == IF s = " 5 " THEN "5" ELSE s

\* strings.ToLower on the trimmed cell texts
ToLower(s) == IF s = "Yes" THEN "yes" ELSE s

\* strconv.Atoi on the trimmed cell texts: the number, or an error
Atoi(s) ==
  CASE s = "5" -> [ err |-> FALSE, num |-> 5 ]
    [] s = "-1" -> [ err |-> FALSE, num |-> -1 ]
    [] s = "0" -> [ err |-> FALSE, num |-> 0 ]
    [] OTHER -> [ err |-> TRUE, num |-> 0 ]

\* the cell of a column, trimmed; "" without the column or the cell
\* (colIndex holds the 0-based positions of the header)
getValue(row, colIndex, csvCol) ==
  IF csvCol \in DOMAIN colIndex /\ colIndex[csvCol] < Len(row)
  THEN TrimSpace(row[colIndex[csvCol] + 1])
  ELSE ""

\* mutant of getInt: a cell that is not an integer is read as 0
getIntZeroDefault(row, colIndex, csvCol) ==
  LET val == getValue(row, colIndex, csvCol)
  IN  IF val = "" THEN Nil
      ELSE IF Atoi(val).err THEN Ptr(0)
      ELSE Ptr(Atoi(val).num)

getInt(row, colIndex, csvCol) ==
  LET val == getValue(row, colIndex, csvCol)
  IN  IF val = "" THEN Nil
      ELSE IF Atoi(val).err THEN Nil
      ELSE Ptr(Atoi(val).num)

getBool(row, colIndex, csvCol) ==
  LET val == getValue(row, colIndex, csvCol)
      lower == ToLower(val)
  IN  IF val = "" THEN Nil
      ELSE IF lower \in { "true", "yes", "1" } THEN Ptr(TRUE)
      ELSE IF lower \in { "false", "no", "0" } THEN Ptr(FALSE)
      ELSE Nil

\* parseSpecRow: the Spec of a record, and the error (always nil)
parseSpecRow(row, colIndex) ==
  [ err |-> FALSE,
    spec |->
      [ NodeLinkID |-> getValue(row, colIndex, "itemId"),
        SectionLinkID |-> "",
        Name |-> getValue(row, colIndex, "nameJP"),
        NameTrans |-> getValue(row, colIndex, "nameTrans"),
        Type |-> getValue(row, colIndex, "itemType"),
        ButtonType |-> getValue(row, colIndex, "buttonType"),
        OtherType |-> getValue(row, colIndex, "itemSubtype"),
        Action |-> getValue(row, colIndex, "userAction"),
        LinkedFrameID |-> getValue(row, colIndex, "linkedFrameId"),
        NavigationNote |-> getValue(row, colIndex, "transitionNote"),
        DataType |-> getValue(row, colIndex, "dataType"),
        Required |-> getBool(row, colIndex, "required"),
        Format |-> getValue(row, colIndex, "format"),
        MinLength |-> getInt(row, colIndex, "minLength"),
        MaxLength |-> getInt(row, colIndex, "maxLength"),
        DefaultValue |-> getValue(row, colIndex, "defaultValue"),
        ValidationNote |-> getValue(row, colIndex, "validationNote"),
        TableName |-> getValue(row, colIndex, "databaseTable"),
        ColumnName |-> getValue(row, colIndex, "databaseColumn"),
        DatabaseNote |-> getValue(row, colIndex, "databaseNote"),
        Description |-> getValue(row, colIndex, "description") ] ]

\* the columns the headers of the model name
HeaderColumns == { "itemType", "minLength", "required" }

\* the column index maps of the headers: some of the columns, each at its
\* own position
ColIndexes ==
  UNION { { f \in [ S -> 0..(HeaderWidth - 1) ] :
              \A a, b \in S : a # b => f[a] # f[b] } :
          S \in SUBSET HeaderColumns }

\* parseSpecRow of a record under a header
ApplyParse ==
  /\ pout = PureIdle
  /\ pspec = ZeroSpec
  /\ \E row \in SeqsUpTo(CellTexts, MaxRowCells), colIndex \in ColIndexes :
       pout' = [ op |-> "parseSpecRow", status |-> "", errors |-> <<>>,
                 row |-> row, colIndex |-> colIndex,
                 parsed |-> parseSpecRow(row, colIndex) ]
  /\ UNCHANGED << pspec, orchVars >>

\* the specs that differ from spec in exactly one content field
OneFieldChanged(spec) ==
  UNION { { [ spec EXCEPT ![f] = v ] :
              v \in (FieldValues(f) \cup { ZeroSpec[f] }) \ { spec[f] } } :
          f \in ContentFields }

\* CompareSpecs of the projections of two specs: each of them nil or the
\* spec built so far, or (the previous one) that spec with one field changed
ApplyCompare ==
  /\ pout = PureIdle
  /\ Cardinality(FieldsSet(pspec)) <= MaxFieldsCompared
  /\ \E current \in { Nil, Ptr(pspec) } :
       \E previous \in { Nil, Ptr(pspec) } \cup { Ptr(o) : o \in OneFieldChanged(pspec) } :
         pout' = [ op |-> "CompareSpecs", status |-> "", errors |-> <<>>,
                   current |-> current, previous |-> previous,
                   equal |-> CompareSpecs(MapSpecOrNil(current), MapSpecOrNil(previous)) ]
  /\ UNCHANGED << pspec, orchVars >>

\* TransformSpecToPayload of the spec built so far
ApplyTransform ==
  /\ pout = PureIdle
  /\ \E status \in { DesignItemStatusDraft, DesignItemStatusCompleted } :
       pout' = [ op |-> "TransformSpecToPayload", status |-> status, errors |-> <<>>,
                 payload |-> TransformSpecToPayload(pspec, 1, 1, "", status) ]
  /\ UNCHANGED << pspec, orchVars >>

InitPure ==
  /\ pspec = ZeroSpec
  /\ pout = PureIdle
  /\ files = <<>>
  /\ db = <<>>
  /\ actor = ""
  /\ continueOnError = FALSE
  /\ OrchStart

\* the record a stored payload of the spec is read back as
ReadBack(spec, status) ==
  LET payload == TransformSpecToPayload(spec, 1, 1, "", status)
  IN  convertDesignItemToSpec(
        DesignItem(1, payload.NodeLinkID, payload.SectionLinkID, payload.Type,
                   payload.Status, << MarshalSpecDetails(payload.Specs) >>))

\* TransformSpecToPayload of the spec built so far, stored and read back with
\* convertDesignItemToSpec, and the comparison of the two projections
ApplyRoundTrip ==
  /\ pout = PureIdle
  /\ \E status \in { DesignItemStatusDraft, DesignItemStatusCompleted } :
       LET back == ReadBack(pspec, status)
       IN  pout' = [ op |-> "RoundTrip", status |-> status, errors |-> <<>>,
                     back |-> back,
                     equal |-> CompareSpecs(MapSpecForComparison(back),
                                            MapSpecForComparison(pspec)) ]
  /\ UNCHANGED << pspec, orchVars >>

NextPure ==
  \/ SetField
  \/ ApplyValidate
  \/ ApplyDetermine
  \/ ApplyCompare
  \/ ApplyTransform
  \/ ApplyParse
  \/ ApplyRoundTrip

SpecPure == InitPure /\ [][NextPure]_vars

\* ------------------------------------------------------------------------
\* Properties
\* ------------------------------------------------------------------------
\* uploadSingleSpecFile has returned for a file of this invocation
FileReturned == pc \in { "boundary", "done" } /\ Len(results) > 0

\* the result and the input of the file that returned last
LastResult == results[Len(results)]

LastFile == files[Len(results)]

\* the file the working set (calls, existingMap, validSpecs, ...) belongs to
WorkingFile == IF pc \in { "boundary", "done" } THEN Len(results) ELSE idx

Called(op) == \E i \in 1..Len(calls) : calls[i].op = op

CalledOk(op) == \E i \in 1..Len(calls) : calls[i].op = op /\ calls[i].ok

CalledFailed(op) == \E i \in 1..Len(calls) : calls[i].op = op /\ ~calls[i].ok

CompletedErrors == ValidateSpecContent(pspec, DesignItemStatusCompleted)

DraftErrors == ValidateSpecContent(pspec, DesignItemStatusDraft)

Determined == pout.op = "DetermineSpecStatus"

\* the frame holds at most one design item per node_link_id
OneItemPerNode(table) ==
  \A a, b \in table : a.NodeLinkID = b.NodeLinkID => a = b

\* C1 (as claimed): when the previous invocation uploaded the file with
\* success and nothing else touched the remote store, an invocation on the
\* unchanged file issues no upsert and no revision insert.  (Stated for the
\* invocations whose remote calls all succeed and for frames holding one
\* design item per node.)
C1_SecondRunWritesNothing ==
  ( /\ run > 1
    /\ calls # <<>>
    /\ WorkingFile <= Len(prevResults)
    /\ prevResults[WorkingFile] = StatusSuccess
    /\ OneItemPerNode(db[WorkingFile])
    /\ \A i \in 1..Len(calls) : calls[i].ok )
  => ( ~Called("UpsertDesignItemSpecs") /\ ~Called("InsertDesignItemRevs") )

\* C2 (as claimed): DetermineSpecStatus returns none with no violations
\* exactly when every content field other than the type is absent.
C2_NoneIffAbsentBesidesType ==
  Determined =>
    ( (pout.status = DesignItemStatusNone /\ pout.errors = <<>>)
      <=> FieldsSet(pspec) \subseteq { "Type" } )

\* C2 (amended): DetermineSpecStatus returns none with no violations exactly
\* when every content field, the type included, is absent.
C2_NoneIffAllContentAbsent ==
  Determined =>
    ( (pout.status = DesignItemStatusNone /\ pout.errors = <<>>)
      <=> FieldsSet(pspec) = {} )

C2_Witness ==
  /\ Determined
  /\ FieldsSet(pspec) = { "Type" }
  /\ pout.status # DesignItemStatusNone

\* C3: a spec without violations under completed gets status completed and
\* an empty violation list, never draft or none.
C3_ValidCompletedIsCompleted ==
  (Determined /\ CompletedErrors = <<>>)
  => (pout.status = DesignItemStatusCompleted /\ pout.errors = <<>>)

C3_Witness ==
  /\ Determined
  /\ CompletedErrors = <<>>
  /\ Cardinality(FieldsSet(pspec)) = MaxFieldsSet

\* C4: a non-empty spec with violations under both completed and draft gets
\* status draft and exactly the violations of the draft validation, in order.
C4_BothFailGivesDraftErrors ==
  (Determined /\ FieldsSet(pspec) # {} /\ CompletedErrors # <<>> /\ DraftErrors # <<>>)
  => ( /\ pout.status = DesignItemStatusDraft
       /\ pout.errors = DraftErrors
       /\ \A i \in 1..Len(pout.errors) : pout.errors[i] \in Range(DraftErrors) )

C4_Witness ==
  /\ Determined
  /\ DraftErrors # <<>>
  /\ CompletedErrors # DraftErrors
  /\ pout.errors = DraftErrors

\* C5: every violation of the draft validation is also a violation of the
\* completed validation, so a spec valid under completed is valid under draft.
C5_CompletedAtLeastAsDemanding ==
  (pout.op = "ValidateSpecContent" /\ pout.status = DesignItemStatusDraft)
  => ( /\ \A i \in 1..Len(pout.errors) : pout.errors[i] \in Range(CompletedErrors)
       /\ (CompletedErrors = <<>> => pout.errors = <<>>) )

C5_Witness ==
  /\ pout.op = "ValidateSpecContent"
  /\ pout.status = DesignItemStatusDraft
  /\ pout.errors # <<>>
  /\ Len(CompletedErrors) > Len(pout.errors)

\* C6 (as claimed): once the rows are classified, a row whose node has a
\* deleted remote record is in the invalid set with the fixed message and
\* is not in the upsert batch, whatever the remote calls returned.
C6_DeletedRowNeverWritten ==
  pc \in { "ListFrames", "Upsert" } =>
    \A r \in Range(files[idx].csv.rows) :
      (\E it \in db[idx] : it.NodeLinkID = r.node /\ it.Status = DesignItemStatusDeleted)
      => ( /\ \A i \in 1..Len(items) : items[i].node_link_id # r.node
           /\ \E i \in 1..Len(invalidSpecs) :
                invalidSpecs[i].Spec = r /\ invalidSpecs[i].Errors = << MsgDeleted >> )

\* C7 (as claimed): a failed frame lookup, existing-record batch fetch or
\* upsert is the last remote call of the file, and the file's outcome is failed.
C7_FailedCallAbortsFile ==
  \A i \in 1..Len(calls) :
    ( /\ calls[i].op \in { "GetFrame", "ListDesignItemsByNodeLinkIds",
                           "UpsertDesignItemSpecs" }
      /\ ~calls[i].ok )
    => ( /\ i = Len(calls)
         /\ FileReturned => LastResult.Status = StatusFailed )

\* C8: once the upsert has succeeded the file's outcome is success, also
\* with an empty actor, a failed user lookup or a failed revision insert.
C8_UpsertDoneMeansSuccess ==
  (FileReturned /\ CalledOk("UpsertDesignItemSpecs"))
  => LastResult.Status = StatusSuccess

C8_Witness ==
  /\ FileReturned
  /\ CalledOk("UpsertDesignItemSpecs")
  /\ CalledFailed("InsertDesignItemRevs")
  /\ LastResult.Status = StatusSuccess

\* a file with a structural error: unparseable, no data rows, frame not
\* found, frame in status design
Structural(f) ==
  \/ ~f.csv.readable
  \/ Len(f.csv.rows) = 0
  \/ f.frame \in { "missing", "design" }

\* C9: a file with a structural error gets a non-success outcome, no upsert
\* and no revision insert is issued for it, and no step of its processing
\* changes the remote store.
C9_StructuralErrorWritesNothing ==
  /\ [] ( (FileReturned /\ Structural(LastFile))
          => ( /\ LastResult.Status # StatusSuccess
               /\ ~Called("UpsertDesignItemSpecs")
               /\ ~Called("InsertDesignItemRevs") ) )
  /\ [][ (pc # "done" /\ Structural(files[idx])) => db' = db ]_vars

C9_Witness ==
  /\ FileReturned
  /\ LastFile.frame = "design"
  /\ LastFile.csv.readable
  /\ Len(LastFile.csv.rows) > 0
  /\ db[Len(results)] # {}
  /\ LastResult = [Status |-> StatusFailed, Message |-> MsgDesign]

\* C10 (as claimed): uploadSpecFiles, when not cancelled, returns one result
\* per input file, also when a file failed.
C10_OneResultPerFile ==
  (pc = "done" /\ ctx = "live") => Len(results) = Len(files)

\* C10 (amended): with continueOnError set and no cancellation,
\* uploadSpecFiles returns one result per input file, also after a failed
\* file; without the flag it returns at the first failed file, and a
\* skipped or successful file never ends the loop.
C10_OneResultPerFileWhenContinuing ==
  (pc = "done" /\ ctx = "live")
  => ( /\ continueOnError => Len(results) = Len(files)
       /\ Len(results) < Len(files) => LastResult.Status = StatusFailed
       /\ ~continueOnError
            => \A i \in 1..(Len(results) - 1) : results[i].Status # StatusFailed )

C10_Witness ==
  /\ pc = "done"
  /\ ctx = "live"
  /\ continueOnError
  /\ Len(files) = MaxBatch
  /\ Len(results) = Len(files)
  /\ results[1].Status = StatusFailed

\* C11 (as claimed): a cancellation that arrives while a file is processed
\* does not interrupt the file; in particular the process never ends after
\* the file's upsert has been done and before its revision step has run.
C11_CancellationOnlyAtBoundary ==
  ~( /\ ctx = "exited"
     /\ pc \in { "GetUser", "InsertRevs" }
     /\ CalledOk("UpsertDesignItemSpecs") )

\* the rows of the working file have been classified
RowsClassified == calls # <<>> /\ Called("ListDesignItemsByNodeLinkIds")

\* the ValidatedSpecs of a row in a set
InSet(set, row) == \E i \in 1..Len(set) : set[i].Spec = row

\* the fetched record of the row is not deleted, has the row's comparison
\* projection and has the status DetermineSpecStatus gives the row
UnchangedAgainstExisting(row) ==
  /\ row.node \in DOMAIN existingMap
  /\ existingMap[row.node].Status # DesignItemStatusDeleted
  /\ CompareSpecs(MapSpecForComparison(SpecOf(row)),
                  MapSpecForComparison(convertDesignItemToSpec(existingMap[row.node])))
  /\ existingMap[row.node].Status = DetermineSpecStatus(SpecOf(row)).status

\* C12: a row is skipped (in neither set, so not in the batch) exactly when
\* its fetched record is not deleted, has an equal projection and has the
\* determined status; a row without a fetched record is changed, not skipped.
C12_SkippedIffUnchangedSameStatus ==
  RowsClassified =>
    /\ Len(items) <= Len(validSpecs)
    /\ \A r \in Range(files[WorkingFile].csv.rows) :
         /\ InSet(skipped, r) <=> UnchangedAgainstExisting(r)
         /\ InSet(skipped, r) <=> ~(InSet(validSpecs, r) \/ InSet(invalidSpecs, r))
         /\ r.node \notin DOMAIN existingMap =>
              /\ ~InSet(skipped, r)
              /\ \A i \in 1..Len(validSpecs) :
                   validSpecs[i].Spec = r => validSpecs[i].Changed /\ validSpecs[i].IsNew
              /\ \A i \in 1..Len(invalidSpecs) :
                   invalidSpecs[i].Spec = r => invalidSpecs[i].Changed /\ invalidSpecs[i].IsNew

\* one row skipped, and another with a fetched, unchanged record of another
\* status that is kept for the upsert
C12_Witness ==
  /\ RowsClassified
  /\ \E r \in Range(files[WorkingFile].csv.rows) : InSet(skipped, r)
  /\ \E r \in Range(files[WorkingFile].csv.rows) :
       /\ r.node \in DOMAIN existingMap
       /\ existingMap[r.node].Status = DesignItemStatusDraft
       /\ InSet(validSpecs, r)
       /\ \E i \in 1..Len(validSpecs) : validSpecs[i].Spec = r /\ ~validSpecs[i].Changed

\* C13: with an empty valid set after the classification and the linked
\* frame check the file returns without an upsert: failed with the "no valid
\* specs" message when a row is invalid, skipped with "no changes" when none is.
C13_EmptyValidSetOutcomes ==
  (RowsClassified /\ validSpecs = <<>>) =>
    /\ FileReturned
    /\ ~Called("UpsertDesignItemSpecs")
    /\ items = <<>>
    /\ IF invalidSpecs # <<>>
       THEN LastResult.Status = StatusFailed /\ LastResult.Message = MsgNoValid
       ELSE /\ LastResult.Status = StatusSkipped /\ LastResult.Message = MsgNoChanges
            /\ \A r \in Range(files[WorkingFile].csv.rows) : InSet(skipped, r)

\* the linked frame check has emptied the valid set
C13_Witness ==
  /\ RowsClassified
  /\ CalledOk("ListFramesByFrameLinkIds")
  /\ validSpecs = <<>>
  /\ invalidSpecs # <<>>
  /\ FileReturned
  /\ LastResult.Status = StatusFailed

\* the linked_frame_id of a row
LinkedFrameOf(row) == SpecOf(row).LinkedFrameID

\* the rows the classification loop put in the valid set
ClassifiedValid ==
  { r \in Range(files[WorkingFile].csv.rows) :
      ClassifyRow(r, existingMap).class = "valid" }

\* the number of calls of an operation for the working file
CallCount(op) == Cardinality({ i \in 1..Len(calls) : calls[i].op = op })

\* C14: the linked frame query is issued once, over the distinct linked
\* frame ids of the valid rows; when it succeeds, the valid rows whose
\* linked frame is not returned are moved to the invalid set with the "not
\* found" violation and are not written, the other valid rows stay valid.
C14_MissingLinkedFrameMovesRow ==
  RowsClassified =>
    /\ CallCount("ListFramesByFrameLinkIds") <= 1
    /\ Called("ListFramesByFrameLinkIds") =>
         /\ frameLinkIds = { LinkedFrameOf(r) : r \in ClassifiedValid } \ { "" }
         /\ frameLinkIds # {}
    /\ CalledOk("ListFramesByFrameLinkIds") =>
         /\ \A r \in ClassifiedValid :
              IF LinkedFrameOf(r) # "" /\ LinkedFrameOf(r) \notin frameMap
              THEN /\ ~InSet(validSpecs, r)
                   /\ \E i \in 1..Len(invalidSpecs) :
                        /\ invalidSpecs[i].Spec = r
                        /\ ~invalidSpecs[i].IsValid
                        /\ invalidSpecs[i].Errors = << MsgLinkedFrame >>
              ELSE InSet(validSpecs, r) /\ ~InSet(invalidSpecs, r)
         /\ \A i \in 1..Len(validSpecs) : validSpecs[i].Spec \in ClassifiedValid
         /\ items \in { <<>>, PrepareItems(validSpecs, existingMap) }

\* two linked frames asked for, one returned: one row moved, one row kept,
\* and the kept row is in the batch
C14_Witness ==
  /\ RowsClassified
  /\ CalledOk("ListFramesByFrameLinkIds")
  /\ Cardinality(frameLinkIds) = 2
  /\ Cardinality(frameMap) = 1
  /\ Len(validSpecs) = 1
  /\ \E i \in 1..Len(invalidSpecs) : invalidSpecs[i].Errors = << MsgLinkedFrame >>
  /\ Len(items) = 1

\* C15 (as claimed): a row with a linked_frame_id is in the upsert batch
\* only when the linked frame query of the run has confirmed that frame,
\* also when that query fails.
C15_WrittenLinkedFrameConfirmed ==
  (RowsClassified /\ items # <<>>) =>
    \A i \in 1..Len(validSpecs) :
      LinkedFrameOf(validSpecs[i].Spec) # "" =>
        /\ CalledOk("ListFramesByFrameLinkIds")
        /\ LinkedFrameOf(validSpecs[i].Spec) \in frameMap

\* the validated specs written for a node
WrittenFor(node) ==
  { i \in 1..Len(validSpecs) : SpecOf(validSpecs[i].Spec).NodeLinkID = node }

\* a saved item has a revision entry
RevisionsOf(item) == { i \in 1..Len(revs) : revs[i].design_item_id = item.ID }

\* the projection of the fetched record differs from that of the written spec
DiffersFromExisting(item) ==
  \A i \in WrittenFor(item.NodeLinkID) :
    ~CompareSpecs(MapSpecForComparison(SpecOf(validSpecs[i].Spec)),
                  MapSpecForComparison(convertDesignItemToSpec(existingMap[item.NodeLinkID])))

\* C16: after a successful upsert and with the actor resolved, every
\* returned record without a fetched existing record has exactly one
\* revision; a returned record with one has exactly one revision when the
\* projection of the pre-write record differs from that of the written spec
\* and none when they are equal; there are no other revisions.
C16_RevisionsForNewAndChanged ==
  CalledOk("GetMorpheusUserByEmail") =>
    /\ CalledOk("UpsertDesignItemSpecs")
    /\ \A k \in 1..Len(savedItems) :
         LET item == savedItems[k]
         IN  /\ Cardinality(WrittenFor(item.NodeLinkID)) = 1
             /\ Cardinality(RevisionsOf(item)) =
                  IF item.NodeLinkID \notin DOMAIN existingMap THEN 1
                  ELSE IF DiffersFromExisting(item) THEN 1
                  ELSE 0
    /\ \A i \in 1..Len(revs) :
         \E k \in 1..Len(savedItems) :
            /\ savedItems[k].ID = revs[i].design_item_id
            /\ revs[i].specs = savedItems[k].Specs
            /\ revs[i].status = savedItems[k].Status

\* a stored button and a row that differs from it in the description only:
\* one revision; and a written record with an equal projection: none
C16_Witness ==
  /\ CalledOk("GetMorpheusUserByEmail")
  /\ \E k \in 1..Len(savedItems) :
       LET item == savedItems[k]
       IN  /\ item.NodeLinkID \in DOMAIN existingMap
           /\ validSpecs[CHOOSE i \in WrittenFor(item.NodeLinkID) : TRUE].Spec.tpl = "described"
           /\ existingMap[item.NodeLinkID].Type = "button"
           /\ DiffersFromExisting(item)
           /\ Cardinality(RevisionsOf(item)) = 1
  /\ \E k \in 1..Len(savedItems) :
       /\ savedItems[k].NodeLinkID \in DOMAIN existingMap
       /\ ~DiffersFromExisting(savedItems[k])
       /\ RevisionsOf(savedItems[k]) = {}

\* the content fields in which two specs differ
DifferingFields(a, b) == { f \in ContentFields : a[f] # b[f] }

\* C17: CompareSpecs over the projections is reflexive, reports not-equal
\* when exactly one of the 19 content fields differs (absent against 0 or
\* false included); two nil projections are equal, a nil one equals no other.
C17_ComparatorDetectsOneField ==
  pout.op = "CompareSpecs" =>
    /\ Cardinality(ContentFields) = 19
    /\ (pout.current = Nil /\ pout.previous = Nil) => pout.equal
    /\ ((pout.current = Nil) # (pout.previous = Nil)) => ~pout.equal
    /\ (pout.current # Nil /\ pout.previous # Nil) =>
         /\ pout.current = pout.previous => pout.equal
         /\ Cardinality(DifferingFields(Deref(pout.current), Deref(pout.previous))) = 1
              => ~pout.equal

\* an absent min_length compared with min_length 0
C17_Witness ==
  /\ pout.op = "CompareSpecs"
  /\ pout.current # Nil
  /\ pout.previous # Nil
  /\ DifferingFields(Deref(pout.current), Deref(pout.previous)) = { "MinLength" }
  /\ Deref(pout.current).MinLength = Nil
  /\ Deref(pout.previous).MinLength = Ptr(0)
  /\ ~pout.equal

\* C18: for every type and target status ValidateSpecContent reports the
\* minLength/maxLength order violation exactly when both are present and
\* minLength >= maxLength, so a spec accepted with both present has
\* minLength < maxLength; a present negative minLength or maxLength is
\* reported too.
C18_MinBelowMax ==
  pout.op = "ValidateSpecContent" =>
    LET hasMin == pspec.MinLength # Nil
        hasMax == pspec.MaxLength # Nil
        reported(msg) == \E i \in 1..Len(pout.errors) : pout.errors[i] = msg
    IN  /\ reported(MsgMinMax) <=>
             (hasMin /\ hasMax /\ Deref(pspec.MinLength) >= Deref(pspec.MaxLength))
        /\ (pout.errors = <<>> /\ hasMin /\ hasMax) =>
             Deref(pspec.MinLength) < Deref(pspec.MaxLength)
        /\ (hasMin /\ Deref(pspec.MinLength) < 0) => reported(MsgMinLength)
        /\ (hasMax /\ Deref(pspec.MaxLength) < 0) => reported(MsgMaxLength)

\* minLength equal to maxLength on a type that needs neither, for draft
C18_Witness ==
  /\ pout.op = "ValidateSpecContent"
  /\ pout.status = DesignItemStatusDraft
  /\ pspec.Type = "button"
  /\ pspec.MinLength = Ptr(3)
  /\ pspec.MaxLength = Ptr(3)
  /\ pout.errors = << MsgMinMax >>

\* C19 (as claimed): for target status completed a button without a
\* buttonType gets the violation that names the allowed button types, and a
\* button with an accepted buttonType gets no buttonType violation.
C19_ButtonTypeRequired ==
  ( /\ pout.op = "ValidateSpecContent"
    /\ pout.status = DesignItemStatusCompleted
    /\ pspec.Type = "button" )
  => LET reported == \E i \in 1..Len(pout.errors) : pout.errors[i] = MsgButtonType
     IN  /\ pspec.ButtonType = "" => reported
         /\ pspec.ButtonType \in AcceptedButtonTypes => ~reported

\* C20 (as claimed): in the payload of a button the table name, the column
\* name and the database note are all empty whatever the spec holds, and in
\* the payload of any other type all three carry the values of the spec.
C20_DatabaseGroupSuppressedForButton ==
  pout.op = "TransformSpecToPayload" =>
    LET database == pout.payload.Specs.Database
    IN  IF pspec.Type = "button"
        THEN /\ database.tableName = ""
             /\ database.columnName = ""
             /\ database.note = ""
        ELSE /\ database.tableName = pspec.TableName
             /\ database.columnName = pspec.ColumnName
             /\ database.note = pspec.DatabaseNote

\* C21: the section_link_id of each payload of the batch is the row's own
\* when it has one, else that of the fetched existing record when there is
\* one and it is not empty, else the frame's link id.
C21_SectionLinkIdOrder ==
  items # <<>> =>
    /\ Len(items) = Len(validSpecs)
    /\ \A i \in 1..Len(items) :
         LET spec == SpecOf(validSpecs[i].Spec)
             node == spec.NodeLinkID
         IN  items[i].section_link_id =
               IF spec.SectionLinkID # "" THEN spec.SectionLinkID
               ELSE IF node \in DOMAIN existingMap /\ existingMap[node].SectionLinkID # ""
               THEN existingMap[node].SectionLinkID
               ELSE FrameLinkID

\* one payload takes the section of its existing record, another row whose
\* record has none falls back to the frame's link id
C21_Witness ==
  /\ Len(items) = 2
  /\ \E i, j \in 1..Len(items) :
       /\ items[i].node_link_id \in DOMAIN existingMap
       /\ existingMap[items[i].node_link_id].SectionLinkID = SectionS1
       /\ items[i].section_link_id = SectionS1
       /\ items[j].node_link_id \in DOMAIN existingMap
       /\ existingMap[items[j].node_link_id].SectionLinkID = ""
       /\ items[j].section_link_id = FrameLinkID

\* the place of a remote operation in the pipeline of a file
CallRank(op) ==
  CASE op = "GetFrame" -> 1
    [] op = "ListDesignItemsByNodeLinkIds" -> 2
    [] op = "ListFramesByFrameLinkIds" -> 3
    [] op = "UpsertDesignItemSpecs" -> 4
    [] op = "GetMorpheusUserByEmail" -> 5
    [] op = "InsertDesignItemRevs" -> 6

\* C22: the remote operations of a file happen in the order frame lookup,
\* batch fetch, linked frame query, upsert, user lookup, revision insert,
\* each at most once, and every row is classified before the upsert.
C22_CallOrder ==
  /\ \A i, j \in 1..Len(calls) :
       i < j => CallRank(calls[i].op) < CallRank(calls[j].op)
  /\ (pc = "Upsert" \/ Called("UpsertDesignItemSpecs")) =>
       /\ RowsClassified
       /\ \A r \in Range(files[WorkingFile].csv.rows) :
            InSet(validSpecs, r) \/ InSet(invalidSpecs, r) \/ InSet(skipped, r)
       /\ items = PrepareItems(validSpecs, existingMap)

\* all six operations were called for one file
C22_Witness ==
  /\ Len(calls) = 6
  /\ calls[6].op = "InsertDesignItemRevs"
  /\ FileReturned

\* the cell of a column of the parsed record is there
CellPresent(csvCol) ==
  csvCol \in DOMAIN pout.colIndex /\ pout.colIndex[csvCol] < Len(pout.row)

\* the text of that cell
CellOf(csvCol) == pout.row[pout.colIndex[csvCol] + 1]

\* what a minLength cell is to be read as
ExpectedInt(cell) ==
  CASE cell = " 5 " -> Ptr(5)
    [] cell = "-1" -> Ptr(-1)
    [] cell = "0" -> Ptr(0)
    [] OTHER -> Nil

\* what a required cell is to be read as
ExpectedBool(cell) ==
  CASE cell = "Yes" -> Ptr(TRUE)
    [] cell = "0" -> Ptr(FALSE)
    [] OTHER -> Nil

\* C23: parseSpecRow never fails; a missing column, a cell beyond the
\* record or a blank cell gives an absent field, a minLength cell that is
\* no integer and a required cell that is no boolean word give nil, and a
\* parseable cell gives its value.
C23_ParseRowNeverFails ==
  pout.op = "parseSpecRow" =>
    LET spec == pout.parsed.spec
    IN  /\ ~pout.parsed.err
        /\ spec.Type = IF CellPresent("itemType")
                       THEN (IF CellOf("itemType") = " 5 " THEN "5" ELSE CellOf("itemType"))
                       ELSE ""
        /\ spec.MinLength = IF CellPresent("minLength")
                            THEN ExpectedInt(CellOf("minLength"))
                            ELSE Nil
        /\ spec.Required = IF CellPresent("required")
                           THEN ExpectedBool(CellOf("required"))
                           ELSE Nil
        /\ \A f \in (DOMAIN ZeroSpec) \ { "Type", "MinLength", "Required" } :
             spec[f] = ZeroSpec[f]

\* a record with a minLength cell that is no integer, a required cell that
\* is no boolean word and no cell for the itemType column
C23_Witness ==
  /\ pout.op = "parseSpecRow"
  /\ CellPresent("minLength") /\ CellOf("minLength") = "abc"
  /\ CellPresent("required") /\ CellOf("required") = "maybe"
  /\ "itemType" \in DOMAIN pout.colIndex /\ ~CellPresent("itemType")
  /\ pout.parsed.spec = ZeroSpec

\* the last validated spec of the node in the valid set
LastValidFor(valid, node) ==
  LET hits == SelectSeq(valid, LAMBDA vs : SpecOf(vs.Spec).NodeLinkID = node)
  IN  IF Len(hits) = 0 THEN <<>> ELSE << hits[Len(hits)] >>

C25_RowPartition ==
  RowsClassified =>
    LET rows == files[WorkingFile].csv.rows
    IN  /\ Len(skipped) + Len(invalidSpecs) + Len(validSpecs) = Len(rows)
        /\ \A r \in Range(rows) :
             /\ InSet(skipped, r) \/ InSet(invalidSpecs, r) \/ InSet(validSpecs, r)
             /\ ~(InSet(validSpecs, r) /\ InSet(invalidSpecs, r))
             /\ ~(InSet(skipped, r) /\ InSet(invalidSpecs, r))
             /\ ~(InSet(skipped, r) /\ InSet(validSpecs, r))
        /\ \A i \in 1..Len(validSpecs) : validSpecs[i].IsValid
        /\ \A i \in 1..Len(invalidSpecs) : ~invalidSpecs[i].IsValid
        /\ pc # "ListFrames" =>
             /\ items = IF validSpecs = <<>> THEN <<>>
                        ELSE PrepareItems(validSpecs, existingMap)
             /\ Len(items) = Len(validSpecs)

\* one row skipped and one row moved to the invalid set by the linked frame check
C25_Witness ==
  /\ RowsClassified
  /\ CalledOk("ListFramesByFrameLinkIds")
  /\ Len(skipped) = 1
  /\ validSpecs = <<>>
  /\ Len(invalidSpecs) = 1
  /\ invalidSpecs[1].Errors = << MsgLinkedFrame >>
  /\ items = <<>>

C27_SkipBeforeValidation ==
  RowsClassified =>
    /\ \A r \in Range(files[WorkingFile].csv.rows) :
         (UnchangedAgainstExisting(r) /\ DetermineSpecStatus(SpecOf(r)).errors # <<>>) =>
           /\ InSet(skipped, r)
           /\ ~InSet(invalidSpecs, r)
           /\ ~InSet(validSpecs, r)
    /\ (\A r \in Range(files[WorkingFile].csv.rows) : UnchangedAgainstExisting(r)) =>
         /\ invalidSpecs = <<>>
         /\ FileReturned
         /\ LastResult.Status = StatusSkipped
         /\ LastResult.Message = MsgNoChanges

\* a row with violations was skipped and the file ended as skipped
C27_Witness ==
  /\ RowsClassified
  /\ FileReturned
  /\ LastResult.Status = StatusSkipped
  /\ \E i \in 1..Len(skipped) :
       /\ skipped[i].Errors # <<>>
       /\ UnchangedAgainstExisting(skipped[i].Spec)

\* the valid row has the projection of the existing record of its node and
\* another status
StatusOnlyChange(vs) ==
  /\ vs.Spec.node \in DOMAIN existingMap
  /\ CompareSpecs(MapSpecForComparison(SpecOf(vs.Spec)),
                  MapSpecForComparison(convertDesignItemToSpec(existingMap[vs.Spec.node])))
  /\ existingMap[vs.Spec.node].Status # vs.Status

\* C28: a valid row with the projection of the existing record and another
\* status is in the upsert batch with the newly determined status, and no
\* revision is emitted for it.
C28_StatusOnlyChangeWrittenWithoutRevision ==
  (RowsClassified /\ pc # "ListFrames") =>
    \A i \in 1..Len(validSpecs) :
      StatusOnlyChange(validSpecs[i]) =>
        /\ Len(items) = Len(validSpecs)
        /\ items[i].node_link_id = validSpecs[i].Spec.node
        /\ items[i].status = validSpecs[i].Status
        /\ items[i].status = DetermineSpecStatus(SpecOf(validSpecs[i].Spec)).status
        /\ \A k \in 1..Len(savedItems) :
             savedItems[k].NodeLinkID = validSpecs[i].Spec.node =>
               RevisionsOf(savedItems[k]) = {}

\* a stored draft became completed by an upload of the same content; the
\* acting user was found and no revision is due for it
C28_Witness ==
  /\ CalledOk("UpsertDesignItemSpecs")
  /\ CalledOk("GetMorpheusUserByEmail")
  /\ \E i \in 1..Len(validSpecs) :
       /\ StatusOnlyChange(validSpecs[i])
       /\ \E k \in 1..Len(savedItems) :
            /\ savedItems[k].NodeLinkID = validSpecs[i].Spec.node
            /\ savedItems[k].Status = validSpecs[i].Status
            /\ RevisionsOf(savedItems[k]) = {}

\* C29: revisions are inserted only after the upsert of the file succeeded,
\* the acting user was resolved and a revision is due; there are never more
\* revisions than records returned by the upsert, and the design_item_id,
\* status and specs of each revision are those of such a record.
C29_RevisionInsertGuarded ==
  /\ (pc = "InsertRevs" \/ Called("InsertDesignItemRevs")) =>
       /\ actor # ""
       /\ CalledOk("UpsertDesignItemSpecs")
       /\ CalledOk("GetMorpheusUserByEmail")
       /\ Len(revs) > 0
       /\ \A i, j \in 1..Len(calls) :
            (calls[i].op = "UpsertDesignItemSpecs"
               /\ calls[j].op = "InsertDesignItemRevs") => i < j
  /\ Len(revs) <= Len(savedItems)
  /\ \A i \in 1..Len(revs) :
       \E k \in 1..Len(savedItems) :
          /\ revs[i].design_item_id = savedItems[k].ID
          /\ revs[i].status = savedItems[k].Status
          /\ revs[i].specs = savedItems[k].Specs

\* two records were returned, one revision was due and was sent
C29_Witness ==
  /\ Called("InsertDesignItemRevs")
  /\ Len(savedItems) = 2
  /\ Len(revs) = 1

\* the spec holds a value in a field that is not written for its type or
\* action
HoldsSuppressedValue(spec) ==
  \/ spec.Type # "button" /\ spec.ButtonType # ""
  \/ spec.Type # "others" /\ spec.OtherType # ""
  \/ spec.Action = "" /\ spec.LinkedFrameID # ""
  \/ spec.Type \notin TypesRequiringDataType /\ spec.DataType # ""
  \/ spec.Type \in TypesWithoutValidation
       /\ (spec.Required # Nil \/ spec.Format # "")
  \/ spec.Type \notin TypesRequiringLength
       /\ (spec.MinLength # Nil \/ spec.MaxLength # Nil)
  \/ spec.Type = "button" /\ (spec.TableName # "" \/ spec.ColumnName # "")

\* C30: the projection of a spec that was written and read back equals the
\* projection of the spec exactly when the spec holds no value in a field
\* that is suppressed for its type or action.
C30_RoundTripIffNothingSuppressed ==
  pout.op = "RoundTrip" =>
    (pout.equal <=> ~HoldsSuppressedValue(pspec))

\* a text form with required = false and minLength = 0: both came back and
\* the projections are equal
C30_Witness ==
  /\ pout.op = "RoundTrip"
  /\ pspec.Type = "text_form"
  /\ pspec.Required = Ptr(FALSE)
  /\ pspec.MinLength = Ptr(0)
  /\ pout.back.Required = Ptr(FALSE)
  /\ pout.back.MinLength = Ptr(0)
  /\ pout.equal

====
